---- MODULE Spec2Model ----
(***************************************************************************)
(* Model of the crawl engine of wiki_singapore_crawler: the URL frontier   *)
(* (URLQueueManager), the dedup registry (DeduplicationSystem), the        *)
(* progress tracker (ProgressTracker), the category handler's depth gate   *)
(* and the orchestrator loop (WikipediaCrawler._crawl_loop), with the      *)
(* three state files on disk.                                              *)
(***************************************************************************)
EXTENDS Integers, Sequences, FiniteSets, TLC

(***************************************************************************)
(* Bounds of the model.                                                    *)
(***************************************************************************)
\* number of operations in a sequence of component operations
MaxOps == 4
\* number of non-seed pages of a generated category tree
TreePages == 3
\* max_depth is drawn from 0..MaxDepthBound
MaxDepthBound == 2
\* number of articles listed by the seed of the star-shaped site
StarSize == 10
\* number of crawl sessions (process starts) on one output directory
MaxSessions == 2
\* number of hard kills of the process
MaxKills == 1
\* number of empty-queue checks of one session the model follows
EmptyCheckCap == 11
MaxRetriesBound == 2
MaxInvalidReplies == 1
MaxSavers == 2
MaxSaves == 2
MaxReopens == 1
MaxWorkers == 2
MaxThreads == 2

(***************************************************************************)
(* URLs.  A URL string is modelled by its parts: the case of the host      *)
(* ("En.wikipedia.org" / "en.wikipedia.org"), whether the path holds       *)
(* "/Category:", the page name (a number), a trailing slash, a query       *)
(* ("" / "a=1&b=2" / "b=2&a=1") and a fragment ("" / "#x").                *)
(***************************************************************************)
Queries == {"none", "ab", "ba"}

\* queries that name one parameter twice: "a=1&a=2" and "a=2&a=1"
RepeatedQueries == {"a12", "a21"}

MkUrl(c, i, h, s, q, f) ==
    [cat |-> c, id |-> i, host_upper |-> h, slash |-> s, query |-> q, frag |-> f]

PlainUrl(c, i) == MkUrl(c, i, FALSE, FALSE, "none", FALSE)

\* the URL item that stands for "no item" (None)
NoUrl == MkUrl(FALSE, 0 - 1, FALSE, FALSE, "none", FALSE)

DefaultSettings ==
    [normalize_urls |-> TRUE, remove_fragments |-> TRUE, sort_query_params |-> TRUE]

NormalizeKeepsSlash(url, settings) ==
    [url EXCEPT !.host_upper = FALSE,
                !.query = IF @ = "ba" /\ settings.sort_query_params THEN "ab" ELSE @,
                !.frag = IF settings.remove_fragments THEN FALSE ELSE @]

\* DeduplicationSystem._normalize_url: the host in lower case, the trailing
\* slash of the path removed, the parameters sorted by name (parse_qs keeps
\* the values of one name in the order given), the fragment dropped
normalize_url(url, settings) ==
    [url EXCEPT !.host_upper = FALSE,
                !.slash = FALSE,
                !.query = IF @ = "ba" /\ settings.sort_query_params THEN "ab" ELSE @,
                !.frag = IF settings.remove_fragments THEN FALSE ELSE @]

\* the canonical URL under the default settings
Canon(url) == normalize_url(url, DefaultSettings)

\* rank of the text that follows the page name, in the order of Python's
\* string comparison: "" < "#x" < "/" < "/#x" < "/?a.." < "/?b.." < "?a.." < "?b.."
SuffixRank(url) ==
    LET f == IF url.frag THEN 1 ELSE 0
        q == IF url.query = "ab" THEN 0 ELSE 2
    IN  IF url.query = "none"
        THEN (IF url.slash THEN 2 ELSE 0) + f
        ELSE (IF url.slash THEN 4 ELSE 8) + q + f

\* position of a URL string in the order of Python's string comparison
\* (upper-case host first, "/wiki/Category:.." before "/wiki/P..", then the
\* page name, then the suffix); page names are below 100
UrlRank(url) ==
    (((IF url.host_upper THEN 0 ELSE 1) * 2 + (IF url.cat THEN 0 ELSE 1)) * 100
        + url.id) * 12 + SuffixRank(url)

(***************************************************************************)
(* URLType and its stored value (URLType.value / URLType(str)).            *)
(***************************************************************************)
URLTypeValue(t) == IF t = "CATEGORY" THEN "category" ELSE "article"
URLTypeOf(v) == IF v = "category" THEN "CATEGORY" ELSE "ARTICLE"

(***************************************************************************)
(* C: the URL frontier (URLQueueManager).                                  *)
(***************************************************************************)
\* URLQueueManager.__init__
Queue_init ==
    [heap |-> {}, pending |-> {}, completed |-> {},
     stats |-> [urls_added |-> 0, urls_completed |-> 0,
                categories_pending |-> 0, articles_pending |-> 0]]

PriorityMapSwapped(url_type) == IF url_type = "CATEGORY" THEN 2 ELSE 1

\* URLQueueManager._priority_map
priority_map(url_type) == IF url_type = "CATEGORY" THEN 1 ELSE 2

\* the "no item" result of get_next_url
NoItem == [priority |-> 0, url |-> NoUrl, url_type |-> "ARTICLE", depth |-> 0]

AddUrlDupIgnoresCompleted(q, url) == url \in q.pending

\* the duplicate test of URLQueueManager.add_url
add_url_is_dup(q, url) == url \in q.pending \/ url \in q.completed

\* URLQueueManager.add_url: the queue after the call
Queue_add_url(q, url, url_type, depth) ==
    IF add_url_is_dup(q, url)
    THEN q
    ELSE [q EXCEPT
            !.heap = @ \cup {[priority |-> priority_map(url_type), url |-> url,
                              url_type |-> url_type, depth |-> depth]},
            !.pending = @ \cup {url},
            !.stats.urls_added = @ + 1,
            !.stats.categories_pending =
                IF url_type = "CATEGORY" THEN @ + 1 ELSE @,
            !.stats.articles_pending =
                IF url_type = "CATEGORY" THEN @ ELSE @ + 1]

\* URLQueueManager.add_url: the value returned
Queue_add_url_result(q, url) == ~add_url_is_dup(q, url)

\* the order of the PriorityQueue's (priority, url, url_item) tuples
EntryLess(e1, e2) ==
    \/ e1.priority < e2.priority
    \/ e1.priority = e2.priority /\ UrlRank(e1.url) < UrlRank(e2.url)

\* the entry PriorityQueue.get_nowait returns
HeapMin(heap) == CHOOSE e \in heap : \A f \in heap : f = e \/ EntryLess(e, f)

\* URLQueueManager.get_next_url: the item returned
Queue_get_next_url_item(q) == IF q.heap = {} THEN NoItem ELSE HeapMin(q.heap)

\* URLQueueManager.get_next_url: the queue after the call
Queue_get_next_url(q) ==
    IF q.heap = {}
    THEN q
    ELSE LET e == HeapMin(q.heap)
         IN  [q EXCEPT
                !.heap = @ \ {e},
                !.pending = @ \ {e.url},
                !.stats.categories_pending =
                    IF e.url_type = "CATEGORY" THEN @ - 1 ELSE @,
                !.stats.articles_pending =
                    IF e.url_type = "CATEGORY" THEN @ ELSE @ - 1]

\* URLQueueManager.mark_completed
Queue_mark_completed(q, url) ==
    [q EXCEPT !.completed = @ \cup {url},
              !.pending = @ \ {url},
              !.stats.urls_completed = @ + 1]

\* URLQueueManager.is_empty
Queue_is_empty(q) == q.heap = {}

\* URLQueueManager.size
Queue_size(q) == Cardinality(q.heap)

\* the items get_next_url returns when the queue is drained
RECURSIVE DrainHeap(_)
DrainHeap(heap) ==
    IF heap = {} THEN <<>>
    ELSE LET e == HeapMin(heap) IN <<e>> \o DrainHeap(heap \ {e})

(***************************************************************************)
(* The state files.  A file is absent, corrupt (truncated by a crashed     *)
(* writer) or holds a complete JSON document.                              *)
(***************************************************************************)
QueueDocOf(items, pending, completed, stats) ==
    [queue_items |-> items, pending_urls |-> pending,
     completed_urls |-> completed, stats |-> stats]

EmptyQueueDoc == QueueDocOf(<<>>, {}, {}, Queue_init.stats)

\* one element of 'queue_items' in URLQueueManager.save_state
QueueItemDoc(e) ==
    [priority |-> e.priority, url |-> e.url,
     url_item |-> [url |-> e.url, url_type |-> URLTypeValue(e.url_type),
                   priority |-> e.priority, depth |-> e.depth]]

\* URLQueueManager.save_state: the document written
Queue_save_state(q) ==
    LET items == DrainHeap(q.heap)
    IN  QueueDocOf([i \in 1..Len(items) |-> QueueItemDoc(items[i])],
                   q.pending, q.completed, q.stats)

\* the values URLType(...) accepts
ValidURLTypeValue(v) == v \in {"category", "article"}

\* the number of leading elements of 'queue_items' that load_state turns
\* into queue entries before the reconstruction of a URLItem raises
LoadableItems(items) ==
    IF \A i \in 1..Len(items) : ValidURLTypeValue(items[i].url_item.url_type)
    THEN Len(items)
    ELSE (CHOOSE i \in 1..Len(items) :
            /\ ~ValidURLTypeValue(items[i].url_item.url_type)
            /\ \A k \in 1..(i - 1) : ValidURLTypeValue(items[k].url_item.url_type)) - 1

\* URLQueueManager.load_state: the value returned
Queue_load_state_result(file) ==
    file.kind = "ok" /\ LoadableItems(file.doc.queue_items) = Len(file.doc.queue_items)

\* URLQueueManager.load_state: the queue after the call.  A file that is
\* absent or is no JSON leaves the queue as it is; otherwise the queue and
\* the two sets are cleared and the items are restored one by one, the sets
\* and the statistics after them
Queue_load_state(q, file) ==
    IF file.kind # "ok" THEN q
    ELSE LET restored ==
                {[priority |-> file.doc.queue_items[i].priority,
                  url |-> file.doc.queue_items[i].url,
                  url_type |-> URLTypeOf(file.doc.queue_items[i].url_item.url_type),
                  depth |-> file.doc.queue_items[i].url_item.depth] :
                     i \in 1..LoadableItems(file.doc.queue_items)}
         IN  IF Queue_load_state_result(file)
             THEN [heap |-> restored,
                   pending |-> file.doc.pending_urls,
                   completed |-> file.doc.completed_urls,
                   stats |-> file.doc.stats]
             ELSE [heap |-> restored, pending |-> {}, completed |-> {},
                   stats |-> q.stats]

(***************************************************************************)
(* D: the dedup registry (DeduplicationSystem).                            *)
(***************************************************************************)
\* DeduplicationSystem.__init__
Dedup_init ==
    [processed |-> {},
     stats |-> [urls_processed |-> 0, duplicates_prevented |-> 0],
     settings |-> DefaultSettings]

\* the key DeduplicationSystem looks a URL up by
Dedup_key(d, url) ==
    IF d.settings.normalize_urls THEN normalize_url(url, d.settings) ELSE url

\* DeduplicationSystem.is_processed: the value returned
Dedup_is_processed(d, url) == Dedup_key(d, url) \in d.processed

\* DeduplicationSystem.is_processed: the registry after the call
Dedup_after_is_processed(d, url) ==
    IF Dedup_is_processed(d, url)
    THEN [d EXCEPT !.stats.duplicates_prevented = @ + 1]
    ELSE d

MarkProcessedForgets(d, url) ==
    [d EXCEPT !.processed = {Dedup_key(d, url)},
              !.stats.urls_processed = @ + 1]

\* DeduplicationSystem.mark_processed: the registry after the call
Dedup_mark_processed(d, url) ==
    IF Dedup_key(d, url) \in d.processed
    THEN [d EXCEPT !.stats.duplicates_prevented = @ + 1]
    ELSE [d EXCEPT !.processed = @ \cup {Dedup_key(d, url)},
                   !.stats.urls_processed = @ + 1]

\* DeduplicationSystem.mark_processed: the value returned
Dedup_mark_processed_result(d, url) == Dedup_key(d, url) \notin d.processed

\* DeduplicationSystem.get_processed_count
Dedup_get_processed_count(d) == Cardinality(d.processed)

DedupDocOf(processed, stats, settings) ==
    [processed_urls |-> processed, stats |-> stats, settings |-> settings]

EmptyDedupDoc == DedupDocOf({}, Dedup_init.stats, DefaultSettings)

\* DeduplicationSystem.save_state: the document written
Dedup_save_state(d) == DedupDocOf(d.processed, d.stats, d.settings)

\* DeduplicationSystem.load_state: the value returned
Dedup_load_state_result(file) == file.kind = "ok"

DedupLoadForgets(d, file) ==
    IF file.kind # "ok" THEN d
    ELSE [processed |-> {},
          stats |-> file.doc.stats,
          settings |-> file.doc.settings]

\* DeduplicationSystem.load_state: the registry after the call
Dedup_load_state(d, file) ==
    IF file.kind # "ok" THEN d
    ELSE [processed |-> file.doc.processed_urls,
          stats |-> file.doc.stats,
          settings |-> file.doc.settings]

(***************************************************************************)
(* E: the progress tracker (ProgressTracker).                              *)
(***************************************************************************)
\* ProcessStatus.value / ProcessStatus(str)
ProcessStatusValue(st) ==
    IF st = "COMPLETED" THEN "completed"
    ELSE IF st = "FILTERED" THEN "filtered" ELSE "error"

StatusOfKnowsCompletedOnly(v) ==
    IF v = "completed" THEN "COMPLETED" ELSE "ERROR"

ProcessStatusOf(v) ==
    IF v = "completed" THEN "COMPLETED"
    ELSE IF v = "filtered" THEN "FILTERED" ELSE "ERROR"

\* CrawlStatus(is_running=...)
CrawlStatus(running) ==
    [is_running |-> running, total_processed |-> 0, pending_urls |-> 0,
     categories_processed |-> 0, articles_processed |-> 0,
     filtered_count |-> 0, error_count |-> 0]

\* a dict with no key
EmptyMap == [u \in {} |-> "none"]

\* dict[key] = value
MapPut(m, key, value) ==
    [k \in DOMAIN m \cup {key} |-> IF k = key THEN value ELSE m[k]]

\* the categories _categorize_error sorts error messages into
ErrorCategories ==
    {"network_error", "page_not_found", "access_denied",
     "content_processing_error", "storage_error", "other_error"}

\* defaultdict(int): every key counts 0 until it is added to
NoErrors == [c \in ErrorCategories |-> 0]

\* an error message: its text and which of the substrings that
\* _categorize_error looks for its lower-case form contains
Message(text, has) == [text |-> text, has |-> has]

\* error_message=None
NoMessage == Message("", {})

\* ProgressTracker._categorize_error
categorize_error(error_message) ==
    IF "timeout" \in error_message.has \/ "connection" \in error_message.has
    THEN "network_error"
    ELSE IF "not found" \in error_message.has \/ "404" \in error_message.has
    THEN "page_not_found"
    ELSE IF "permission" \in error_message.has \/ "forbidden" \in error_message.has
    THEN "access_denied"
    ELSE IF "content" \in error_message.has \/ "processing" \in error_message.has
    THEN "content_processing_error"
    ELSE IF "save" \in error_message.has \/ "storage" \in error_message.has
    THEN "storage_error"
    ELSE "other_error"

\* ProgressTracker.__init__
Progress_init ==
    [status |-> CrawlStatus(FALSE), url_status |-> EmptyMap, url_types |-> EmptyMap,
     error_summary |-> NoErrors,
     stats |-> [total_updates |-> 0, state_saves |-> 0, state_loads |-> 0]]

\* ProgressTracker.start_crawling
Progress_start_crawling(e) == [e EXCEPT !.status = CrawlStatus(TRUE)]

\* ProgressTracker.stop_crawling
Progress_stop_crawling(e) == [e EXCEPT !.status.is_running = FALSE]

UpdateProgressCountsCompletedOnly(e, url, st, url_type) ==
    [e EXCEPT
        !.url_status = MapPut(@, url, st),
        !.url_types = MapPut(@, url, url_type),
        !.status.total_processed = IF st = "COMPLETED" THEN @ + 1 ELSE @,
        !.status.categories_processed =
            IF st = "COMPLETED" /\ url_type = "CATEGORY" THEN @ + 1 ELSE @,
        !.status.articles_processed =
            IF st = "COMPLETED" /\ url_type = "ARTICLE" THEN @ + 1 ELSE @,
        !.status.filtered_count = IF st = "FILTERED" THEN @ + 1 ELSE @,
        !.status.error_count = IF st = "ERROR" THEN @ + 1 ELSE @,
        !.stats.total_updates = @ + 1]

\* ProgressTracker.update_progress
Progress_update_progress(e, url, st, url_type) ==
    [e EXCEPT
        !.url_status = MapPut(@, url, st),
        !.url_types = MapPut(@, url, url_type),
        !.status.total_processed = @ + 1,
        !.status.categories_processed =
            IF st = "COMPLETED" /\ url_type = "CATEGORY" THEN @ + 1 ELSE @,
        !.status.articles_processed =
            IF st = "COMPLETED" /\ url_type = "ARTICLE" THEN @ + 1 ELSE @,
        !.status.filtered_count = IF st = "FILTERED" THEN @ + 1 ELSE @,
        !.status.error_count = IF st = "ERROR" THEN @ + 1 ELSE @,
        !.stats.total_updates = @ + 1]

\* ProgressTracker.update_progress called with an error_message
Progress_update_progress_error(e, url, st, url_type, error_message) ==
    LET e1 == Progress_update_progress(e, url, st, url_type)
    IN  IF st = "ERROR" /\ error_message # NoMessage
        THEN [e1 EXCEPT !.error_summary[categorize_error(error_message)] = @ + 1]
        ELSE e1

\* ProgressTracker.update_pending_count
Progress_update_pending_count(e, n) == [e EXCEPT !.status.pending_urls = n]

\* ProgressTracker.get_status
Progress_get_status(e) == e.status

ProgressDocOf(status, url_status, url_types, error_summary, stats) ==
    [status |-> status, url_status |-> url_status, url_types |-> url_types,
     error_summary |-> error_summary, stats |-> stats]

EmptyProgressDoc ==
    ProgressDocOf(CrawlStatus(FALSE), EmptyMap, EmptyMap, NoErrors,
                  Progress_init.stats)

\* ProgressTracker.save_state: the document written
Progress_save_state(e) ==
    ProgressDocOf(e.status,
                  [u \in DOMAIN e.url_status |-> ProcessStatusValue(e.url_status[u])],
                  [u \in DOMAIN e.url_types |-> URLTypeValue(e.url_types[u])],
                  e.error_summary,
                  e.stats)

\* ProgressTracker.save_state: the tracker after the call
Progress_after_save_state(e) == [e EXCEPT !.stats.state_saves = @ + 1]

\* ProgressTracker.load_state: the value returned
Progress_load_state_result(file) == file.kind = "ok"

ProgressLoadDropsCounters(e, file) ==
    IF file.kind # "ok" THEN e
    ELSE [status |-> CrawlStatus(file.doc.status.is_running),
          url_status |-> [u \in DOMAIN file.doc.url_status |->
                             ProcessStatusOf(file.doc.url_status[u])],
          url_types |-> [u \in DOMAIN file.doc.url_types |->
                            URLTypeOf(file.doc.url_types[u])],
          error_summary |-> file.doc.error_summary,
          stats |-> [file.doc.stats EXCEPT !.state_loads = @ + 1]]

\* ProgressTracker.load_state: the tracker after the call
Progress_load_state(e, file) ==
    IF file.kind # "ok" THEN e
    ELSE [status |-> file.doc.status,
          url_status |-> [u \in DOMAIN file.doc.url_status |->
                             ProcessStatusOf(file.doc.url_status[u])],
          url_types |-> [u \in DOMAIN file.doc.url_types |->
                            URLTypeOf(file.doc.url_types[u])],
          error_summary |-> file.doc.error_summary,
          stats |-> [file.doc.stats EXCEPT !.state_loads = @ + 1]]

(***************************************************************************)
(* Files of the state directory.                                           *)
(***************************************************************************)
AbsentQueueFile == [kind |-> "absent", doc |-> EmptyQueueDoc]
AbsentDedupFile == [kind |-> "absent", doc |-> EmptyDedupDoc]
AbsentProgressFile == [kind |-> "absent", doc |-> EmptyProgressDoc]

OkFile(doc) == [kind |-> "ok", doc |-> doc]

\* the state directory of a new output directory
EmptyDisk ==
    [queue |-> AbsentQueueFile, dedup |-> AbsentDedupFile,
     progress |-> AbsentProgressFile]

(***************************************************************************)
(* State.                                                                  *)
(***************************************************************************)
VARIABLES
    q,          \* the URL frontier of the running process
    d,          \* the dedup registry of the running process
    e,          \* the progress tracker of the running process
    disk,       \* the three state files of the output directory
    site,       \* the crawled site: what each page is and links to
    max_depth,  \* WikipediaCrawler.max_depth
    pc,         \* where the crawl thread stands
    cur,        \* url_item of the loop iteration
    page_result,                  \* what process_page returned for cur
    processed_any_url,            \* local of _crawl_loop
    consecutive_empty_checks,     \* local of _crawl_loop
    urls_processed_this_session,  \* _session_stats
    shutdown_requested,           \* WikipediaCrawler._shutdown_requested
    ret_pc,     \* where _save_state returns to
    hist,       \* history of the run: what was fetched and finished
    lastOp,     \* the last component operation and what it returned
    opCount,    \* number of component operations so far
    fetch,      \* the call of PageProcessor._fetch_page under way
    store,      \* the file store, its output directory, the saves under way
    workers,    \* the workers that consume the frontier side by side
    canon,      \* two URL strings and what _normalize_url makes of them
    crawler     \* WikipediaCrawler's control fields and the threads it started

vars == <<q, d, e, disk, site, max_depth, pc, cur, page_result,
          processed_any_url, consecutive_empty_checks,
          urls_processed_this_session, shutdown_requested, ret_pc,
          hist, lastOp, opCount, fetch, store, workers, canon, crawler>>

crawlVars == <<site, max_depth, pc, cur, page_result, processed_any_url,
               consecutive_empty_checks, urls_processed_this_session,
               shutdown_requested, ret_pc, hist, fetch, store, workers, canon, crawler>>

\* a site with the seed category only
NoSite ==
    [name |-> "none", pages |-> {0}, cat |-> [i \in {0} |-> TRUE],
     html |-> [i \in {0} |-> "category"], fetch_ok |-> [i \in {0} |-> TRUE],
     outcome |-> [i \in {0} |-> "completed"], links |-> [i \in {0} |-> {}]]

NoHist ==
    [fetched |-> {}, refetched |-> {}, skipped |-> {}, finished |-> {},
     refinished |-> {}, finished_at_kill |-> {}, dedup_at_start |-> {},
     sessions |-> 0, kills |-> 0, stops |-> 0, since_save |-> 0,
     pending_at_kill |-> {}]

NoLastOp == [op |-> "none", url |-> NoUrl, res |-> FALSE, item |-> NoItem]

\* a file name the store makes: category_<stem>.json or <stem>.json, with
\* the numbers create_unique_filename appended to the stem
FileName(category, stem, sfx) == [category |-> category, stem |-> stem, sfx |-> sfx]

\* a path below the output directory
FilePath(dir, name) == [dir |-> dir, name |-> name]

NoCall ==
    [pc |-> "idle", title |-> "", page_type |-> "", rec |-> 0,
     path |-> FilePath(<<>>, FileName(FALSE, "", <<>>))]

\* no file store
NoStore ==
    [layout |-> [organize_by |-> "flat", create_subfolders |-> FALSE],
     existing |-> {}, files |-> EmptyMap, tmp |-> {},
     calls |-> [t \in 1..MaxSavers |-> NoCall],
     returned |-> {}, last |-> [outcome |-> "none", rec |-> 0],
     saves |-> 0, reopens |-> 0]

\* no URL normalized yet
NoCanon ==
    [u |-> NoUrl, v |-> NoUrl, cu |-> NoUrl, cv |-> NoUrl, ccu |-> NoUrl,
     done |-> FALSE]

\* WikipediaCrawler.__init__: _running, _shutdown_requested, _crawl_thread
\* (0 for None); no thread started, nobody inside stop_crawling
NoCrawler ==
    [running |-> FALSE, shutdown_requested |-> FALSE, crawl_thread |-> 0,
     threads |-> [t \in 1..MaxThreads |-> "unborn"],
     stop_pc |-> "idle", last_call |-> "none"]

\* no worker
NoWorkers ==
    [w \in 1..MaxWorkers |->
        [pc |-> "idle", item |-> NoItem, marked_new |-> FALSE,
         page_result |-> "none"]]

\* what a GET can come to: a response with a status code, or one of the
\* exceptions of requests
NoOutcome == [exc |-> "none", code |-> 0]

\* PageProcessor.__init__: self._stats
PageStats ==
    [requests_made |-> 0, successful_requests |-> 0, failed_requests |-> 0,
     retries_attempted |-> 0, permanent_failures |-> 0, client_errors |-> 0,
     connection_errors |-> 0, timeout_errors |-> 0, redirect_errors |-> 0,
     other_errors |-> 0, total_failures |-> 0, connectivity_tests |-> 0,
     connectivity_successes |-> 0, connectivity_failures |-> 0,
     skipped_urls |-> 0, user_retries |-> 0, user_retry_successes |-> 0,
     circuit_breaker_activations |-> 0]

\* no call of _fetch_page is under way.  Besides the locals of the call
\* (attempt, user_retry_cycle), the statistics and the value returned, the
\* record keeps what happened in the call: the number of GETs to the URL,
\* of backoff waits and of prompts, the last GET and the last reply, and
\* whether every GET was a connection error, every GET a transient
\* failure, a probe succeeded, a reply was other than continue, a GET ran
\* into too many redirects; and since_get, the time since the start of the
\* last GET to the site: delay_between_requests or more ("ge_D") after
\* _enforce_rate_limit and after a backoff wait of a URL whose jitter is not
\* negative, less ("lt_D") after a GET that failed at once; a connectivity
\* test and a reply of the operator can be as quick as they like
NoFetch ==
    [pc |-> "idle", max_retries |-> 0, phase |-> "initial", attempt |-> 0,
     user_retry_cycle |-> 0, result |-> "pending", stats |-> PageStats,
     gets |-> 0, waits |-> 0, prompts |-> 0, invalid_replies |-> 0,
     last_get |-> NoOutcome, last_reply |-> "none", last_step |-> "none",
     only_conn |-> TRUE, only_transient |-> TRUE, probe_ok_seen |-> FALSE,
     other_reply_seen |-> FALSE, redirected |-> FALSE, since_get |-> "ge_D"]

(***************************************************************************)
(* Sequences of component operations: the frontier, the registry and the   *)
(* tracker driven directly, as the unit tests drive them.                  *)
(***************************************************************************)
\* the URLs the operations are called with: two articles, the second one
\* also with a fragment, and a category, also with a trailing slash
OpsUrls ==
    {PlainUrl(FALSE, 1),
     PlainUrl(FALSE, 2),
     MkUrl(FALSE, 2, FALSE, FALSE, "none", TRUE),
     PlainUrl(TRUE, 3),
     MkUrl(TRUE, 3, FALSE, TRUE, "none", FALSE)}

\* URLType as the orchestrator derives it from a URL
UrlTypeOfUrl(url) == IF url.cat THEN "CATEGORY" ELSE "ARTICLE"

InitOps ==
    /\ q = Queue_init
    /\ d = Dedup_init
    /\ e = Progress_init
    /\ disk = EmptyDisk
    /\ site = NoSite
    /\ max_depth = 0
    /\ pc = "ops"
    /\ cur = NoItem
    /\ page_result = "none"
    /\ processed_any_url = FALSE
    /\ consecutive_empty_checks = 0
    /\ urls_processed_this_session = 0
    /\ shutdown_requested = FALSE
    /\ ret_pc = "none"
    /\ hist = NoHist
    /\ lastOp = NoLastOp
    /\ opCount = 0
    /\ fetch = NoFetch
    /\ store = NoStore
    /\ workers = NoWorkers
    /\ canon = NoCanon
    /\ crawler = NoCrawler

OpGuard == pc = "ops" /\ opCount < MaxOps

\* queue.add_url(url, url_type, depth)
OpAdd(url, url_type, depth) ==
    /\ OpGuard
    /\ q' = Queue_add_url(q, url, url_type, depth)
    /\ lastOp' = [op |-> "add", url |-> url, res |-> Queue_add_url_result(q, url),
                  item |-> NoItem]
    /\ opCount' = opCount + 1
    /\ UNCHANGED <<d, e, disk, crawlVars>>

\* queue.get_next_url()
OpNext ==
    /\ OpGuard
    /\ q' = Queue_get_next_url(q)
    /\ lastOp' = [op |-> "next", url |-> Queue_get_next_url_item(q).url,
                  res |-> ~Queue_is_empty(q), item |-> Queue_get_next_url_item(q)]
    /\ opCount' = opCount + 1
    /\ UNCHANGED <<d, e, disk, crawlVars>>

\* queue.mark_completed(url)
OpMarkCompleted(url) ==
    /\ OpGuard
    /\ q' = Queue_mark_completed(q, url)
    /\ lastOp' = [op |-> "mark_completed", url |-> url, res |-> TRUE, item |-> NoItem]
    /\ opCount' = opCount + 1
    /\ UNCHANGED <<d, e, disk, crawlVars>>

\* dedup.mark_processed(url)
OpMarkProcessed(url) ==
    /\ OpGuard
    /\ d' = Dedup_mark_processed(d, url)
    /\ lastOp' = [op |-> "mark_processed", url |-> url,
                  res |-> Dedup_mark_processed_result(d, url), item |-> NoItem]
    /\ opCount' = opCount + 1
    /\ UNCHANGED <<q, e, disk, crawlVars>>

\* dedup.is_processed(url)
OpIsProcessed(url) ==
    /\ OpGuard
    /\ d' = Dedup_after_is_processed(d, url)
    /\ lastOp' = [op |-> "is_processed", url |-> url,
                  res |-> Dedup_is_processed(d, url), item |-> NoItem]
    /\ opCount' = opCount + 1
    /\ UNCHANGED <<q, e, disk, crawlVars>>

\* tracker.update_progress(url, status, url_type)
OpUpdateProgress(url, st, url_type) ==
    /\ OpGuard
    /\ e' = Progress_update_progress(e, url, st, url_type)
    /\ lastOp' = [op |-> "update_progress", url |-> url, res |-> TRUE, item |-> NoItem]
    /\ opCount' = opCount + 1
    /\ UNCHANGED <<q, d, disk, crawlVars>>

\* save_state() of the three components, then load_state() of three new
\* instances on the same files
OpSaveLoad ==
    /\ OpGuard
    /\ disk' = [queue |-> OkFile(Queue_save_state(q)),
                dedup |-> OkFile(Dedup_save_state(d)),
                progress |-> OkFile(Progress_save_state(e))]
    /\ q' = Queue_load_state(Queue_init, disk'.queue)
    /\ d' = Dedup_load_state(Dedup_init, disk'.dedup)
    /\ e' = Progress_load_state(Progress_init, disk'.progress)
    /\ lastOp' = [op |-> "save_load", url |-> NoUrl, res |-> TRUE, item |-> NoItem]
    /\ opCount' = opCount + 1
    /\ UNCHANGED crawlVars

NextOps ==
    \/ \E url \in OpsUrls, depth \in 0..1 : OpAdd(url, UrlTypeOfUrl(url), depth)
    \/ OpNext
    \/ \E url \in OpsUrls : OpMarkCompleted(url)
    \/ \E url \in OpsUrls : OpMarkProcessed(url)
    \/ \E url \in OpsUrls : OpIsProcessed(url)
    \/ \E url \in OpsUrls, st \in {"COMPLETED", "FILTERED", "ERROR"} :
            OpUpdateProgress(url, st, UrlTypeOfUrl(url))
    \/ OpSaveLoad

SpecOps == InitOps /\ [][NextOps]_vars

(***************************************************************************)
(* The crawled site.  Page 0 is the seed category.  A page has a URL kind  *)
(* (cat: "/Category:" in its path), what its HTML looks like to the page   *)
(* classifier (html), whether fetching it succeeds (fetch_ok), how its     *)
(* handler ends (outcome) and, for a category page, the hrefs it lists.    *)
(***************************************************************************)
\* WikipediaCrawler.start_url
start_url == PlainUrl(TRUE, 0)

\* the sites that are trees of TreePages pages below the seed: every page is
\* listed once, by a category page of lower number, under its plain URL; the
\* handlers of its articles all end the same way
ArticleOutcomes == {"completed", "filtered", "error"}

TreeSites ==
    { [name |-> "tree",
       pages |-> 0..TreePages,
       cat |-> [i \in 0..TreePages |-> IF i = 0 THEN TRUE ELSE kind[i]],
       html |-> [i \in 0..TreePages |->
                    IF i = 0 \/ kind[i] THEN "category" ELSE "article"],
       fetch_ok |-> [i \in 0..TreePages |-> TRUE],
       outcome |-> [i \in 0..TreePages |->
                        IF i = 0 \/ kind[i] THEN "completed" ELSE out],
       links |-> [p \in 0..TreePages |->
                    {PlainUrl(kind[i], i) : i \in {j \in 1..TreePages : parent[j] = p}}]] :
      kind \in [1..TreePages -> BOOLEAN],
      out \in ArticleOutcomes,
      parent \in {f \in [1..TreePages -> 0..TreePages] :
                    \A i \in 1..TreePages : f[i] < i} }

\* a tree site is well formed when every parent is a category page
TreeOk(s) == \A p \in s.pages : s.links[p] # {} => s.cat[p]

\* the seed lists StarSize articles
StarSite ==
    [name |-> "star",
     pages |-> 0..StarSize,
     cat |-> [i \in 0..StarSize |-> i = 0],
     html |-> [i \in 0..StarSize |-> IF i = 0 THEN "category" ELSE "article"],
     fetch_ok |-> [i \in 0..StarSize |-> TRUE],
     outcome |-> [i \in 0..StarSize |-> "completed"],
     links |-> [p \in 0..StarSize |->
                    IF p = 0 THEN {PlainUrl(FALSE, i) : i \in 1..StarSize} ELSE {}]]

\* pages listed under several spellings and along several paths: the seed
\* lists category 1, article 2 (plain and with a fragment) and article 3
\* (upper-case host); category 1 lists article 2 (trailing slash), article
\* 3 (plain) and the seed again (with a trailing slash, and with a query);
\* article 3 is filtered
VariantSite ==
    [name |-> "variants",
     pages |-> 0..3,
     cat |-> [i \in 0..3 |-> i < 2],
     html |-> [i \in 0..3 |-> IF i < 2 THEN "category" ELSE "article"],
     fetch_ok |-> [i \in 0..3 |-> TRUE],
     outcome |-> [i \in 0..3 |-> IF i = 3 THEN "filtered" ELSE "completed"],
     links |-> [p \in 0..3 |->
                    IF p = 0 THEN {PlainUrl(TRUE, 1), PlainUrl(FALSE, 2),
                                   MkUrl(FALSE, 2, FALSE, FALSE, "none", TRUE),
                                   MkUrl(FALSE, 3, TRUE, FALSE, "none", FALSE)}
                    ELSE IF p = 1 THEN {MkUrl(FALSE, 2, FALSE, TRUE, "none", FALSE),
                                        PlainUrl(FALSE, 3),
                                        MkUrl(TRUE, 0, FALSE, TRUE, "none", FALSE),
                                        MkUrl(TRUE, 0, FALSE, FALSE, "ba", FALSE)}
                    ELSE {}]]

\* pages that fail: the seed lists article 1 (the fetch fails), article 2
\* (its handler finds no content), category 3 (the file store fails to save
\* its metadata; it lists article 6), article 4 (the classifier raises),
\* article 5, whose HTML carries the markers of a category page and lists
\* article 6 and category 7, and article 8 (the file store fails to save it)
FaultySite ==
    [name |-> "faulty",
     pages |-> 0..8,
     cat |-> [i \in 0..8 |-> i \in {0, 3, 7}],
     html |-> [i \in 0..8 |-> IF i \in {0, 3, 5, 7} THEN "category"
                              ELSE IF i = 4 THEN "unknown" ELSE "article"],
     fetch_ok |-> [i \in 0..8 |-> i # 1],
     outcome |-> [i \in 0..8 |-> IF i = 2 THEN "error"
                                 ELSE IF i \in {3, 8} THEN "storage_error"
                                 ELSE "completed"],
     links |-> [p \in 0..8 |->
                    IF p = 0 THEN {PlainUrl(FALSE, 1), PlainUrl(FALSE, 2),
                                   PlainUrl(TRUE, 3), PlainUrl(FALSE, 4),
                                   PlainUrl(FALSE, 5), PlainUrl(FALSE, 8)}
                    ELSE IF p = 3 THEN {PlainUrl(FALSE, 6)}
                    ELSE IF p = 5 THEN {PlainUrl(FALSE, 6), PlainUrl(TRUE, 7)}
                    ELSE {}]]

\* the seed lists StarSize articles, none of which can be fetched
DeadStarSite ==
    [StarSite EXCEPT !.name = "deadstar",
                     !.fetch_ok = [i \in 0..StarSize |-> i = 0]]

FixtureSites == {StarSite, VariantSite, FaultySite, DeadStarSite}

Sites == {s \in TreeSites : TreeOk(s)} \cup FixtureSites

(***************************************************************************)
(* H: the category handler and the page processor, as the orchestrator     *)
(* sees them.                                                              *)
(***************************************************************************)
\* PageProcessor.process_page: "failed" or the page type of the result
process_page(s, url) ==
    IF ~s.fetch_ok[url.id] THEN "failed"
    ELSE IF url.cat THEN "category"
    ELSE s.html[url.id]

DepthGateOffByOne(s, url, depth, maxd) ==
    (IF depth <= maxd THEN {u \in s.links[url.id] : u.cat} ELSE {})
        \cup {u \in s.links[url.id] : ~u.cat}

\* CategoryPageHandler.process_category: discovered_urls
discovered_urls(s, url, depth, maxd) ==
    (IF depth < maxd THEN {u \in s.links[url.id] : u.cat} ELSE {})
        \cup {u \in s.links[url.id] : ~u.cat}

EnqueueWithoutDedupCheck(qd, url, depth) ==
    [q |-> Queue_add_url(qd.q, url, UrlTypeOfUrl(url),
                         IF url.cat THEN depth + 1 ELSE depth),
     d |-> qd.d]

\* one round of the loop over result.discovered_urls in
\* WikipediaCrawler._process_category_page
enqueue_discovered(qd, url, depth) ==
    IF Dedup_is_processed(qd.d, url)
    THEN [q |-> qd.q, d |-> Dedup_after_is_processed(qd.d, url)]
    ELSE [q |-> Queue_add_url(qd.q, url, UrlTypeOfUrl(url),
                              IF url.cat THEN depth + 1 ELSE depth),
          d |-> qd.d]

\* the loop over result.discovered_urls
RECURSIVE EnqueueAll(_, _, _)
EnqueueAll(qd, urls, depth) ==
    IF urls = {} THEN qd
    ELSE LET u == CHOOSE x \in urls : TRUE
         IN  EnqueueAll(enqueue_discovered(qd, u, depth), urls \ {u}, depth)

(***************************************************************************)
(* K: the orchestrator (WikipediaCrawler).                                 *)
(***************************************************************************)
\* max_empty_checks of _crawl_loop
max_empty_checks == 10

\* the period of the state saving of _crawl_loop
save_every == 10

InitCrawl ==
    /\ q = Queue_init
    /\ d = Dedup_init
    /\ e = Progress_init
    /\ disk = EmptyDisk
    /\ site \in Sites
    /\ max_depth \in 0..MaxDepthBound
    /\ pc = "dead"
    /\ cur = NoItem
    /\ page_result = "none"
    /\ processed_any_url = FALSE
    /\ consecutive_empty_checks = 0
    /\ urls_processed_this_session = 0
    /\ shutdown_requested = FALSE
    /\ ret_pc = "none"
    /\ hist = NoHist
    /\ lastOp = NoLastOp
    /\ opCount = 0
    /\ fetch = NoFetch
    /\ store = NoStore
    /\ workers = NoWorkers
    /\ canon = NoCanon
    /\ crawler = NoCrawler

\* the dedup keys a state file holds
KeysOnFile(file) == IF file.kind = "ok" THEN file.doc.processed_urls ELSE {}

\* a new process: __init__, start_crawling and _crawl_loop up to the loop:
\* _load_state, the start URL, progress_tracker.start_crawling
Start ==
    /\ pc \in {"dead", "done"}
    /\ hist.sessions < MaxSessions
    /\ LET q0 == Queue_load_state(Queue_init, disk.queue)
           d0 == Dedup_load_state(Dedup_init, disk.dedup)
           e0 == Progress_load_state(Progress_init, disk.progress)
           seed == Queue_is_empty(q0) /\ ~Dedup_is_processed(d0, start_url)
       IN  /\ q' = IF seed THEN Queue_add_url(q0, start_url, "CATEGORY", 0) ELSE q0
           /\ d' = IF Queue_is_empty(q0)
                   THEN Dedup_after_is_processed(d0, start_url) ELSE d0
           /\ e' = Progress_start_crawling(e0)
    /\ pc' = "loop"
    /\ cur' = NoItem
    /\ page_result' = "none"
    /\ processed_any_url' = FALSE
    /\ consecutive_empty_checks' = 0
    /\ urls_processed_this_session' = 0
    /\ shutdown_requested' = FALSE
    /\ ret_pc' = "none"
    /\ hist' = [hist EXCEPT !.sessions = @ + 1,
                            !.dedup_at_start = KeysOnFile(disk.dedup),
                            !.since_save = 0]
    /\ UNCHANGED <<disk, site, max_depth, lastOp, opCount, fetch, store, workers, canon, crawler>>

\* `while not self._shutdown_requested` fails: the loop is left
ExitOnShutdown ==
    /\ pc = "loop"
    /\ shutdown_requested
    /\ pc' = "final"
    /\ UNCHANGED <<q, d, e, disk, site, max_depth, cur, page_result,
                   processed_any_url, consecutive_empty_checks,
                   urls_processed_this_session, shutdown_requested, ret_pc,
                   hist, lastOp, opCount, fetch, store, workers, canon, crawler>>

\* get_next_url returns None
EmptyCheck ==
    /\ pc = "loop"
    /\ ~shutdown_requested
    /\ Queue_is_empty(q)
    /\ consecutive_empty_checks < EmptyCheckCap
    /\ consecutive_empty_checks' = consecutive_empty_checks + 1
    /\ pc' = IF consecutive_empty_checks' >= max_empty_checks /\ processed_any_url
             THEN "final" ELSE "loop"
    /\ UNCHANGED <<q, d, e, disk, site, max_depth, cur, page_result,
                   processed_any_url, urls_processed_this_session,
                   shutdown_requested, ret_pc, hist, lastOp, opCount, fetch, store, workers, canon, crawler>>

SkipCheckOff(dd, u) == FALSE

\* the test of the registry after get_next_url in _crawl_loop
dequeued_is_processed(dd, u) == Dedup_is_processed(dd, u)

\* get_next_url returns an item that the registry already holds: continue
DequeueSkip ==
    /\ pc = "loop"
    /\ ~shutdown_requested
    /\ ~Queue_is_empty(q)
    /\ dequeued_is_processed(d, Queue_get_next_url_item(q).url)
    /\ q' = Queue_get_next_url(q)
    /\ d' = Dedup_after_is_processed(d, Queue_get_next_url_item(q).url)
    /\ consecutive_empty_checks' = 0
    /\ processed_any_url' = TRUE
    /\ hist' = [hist EXCEPT
                  !.skipped = @ \cup {Canon(Queue_get_next_url_item(q).url)},
                  !.since_save = @ + 1]
    /\ UNCHANGED <<e, disk, site, max_depth, pc, cur, page_result,
                   urls_processed_this_session, shutdown_requested, ret_pc,
                   lastOp, opCount, fetch, store, workers, canon, crawler>>

\* get_next_url returns an item that is to be processed
Dequeue ==
    /\ pc = "loop"
    /\ ~shutdown_requested
    /\ ~Queue_is_empty(q)
    /\ ~dequeued_is_processed(d, Queue_get_next_url_item(q).url)
    /\ q' = Queue_get_next_url(q)
    /\ cur' = Queue_get_next_url_item(q)
    /\ consecutive_empty_checks' = 0
    /\ processed_any_url' = TRUE
    /\ pc' = "process"
    /\ UNCHANGED <<d, e, disk, site, max_depth, page_result,
                   urls_processed_this_session, shutdown_requested, ret_pc,
                   hist, lastOp, opCount, fetch, store, workers, canon, crawler>>

\* _process_url, first half: mark_processed, mark_completed, process_page
FetchStep ==
    /\ pc = "process"
    /\ d' = Dedup_mark_processed(d, cur.url)
    /\ q' = Queue_mark_completed(q, cur.url)
    /\ page_result' = process_page(site, cur.url)
    /\ hist' = [hist EXCEPT
                  !.fetched = @ \cup {Canon(cur.url)},
                  !.refetched = IF Canon(cur.url) \in hist.fetched
                                THEN @ \cup {Canon(cur.url)} ELSE @]
    /\ pc' = "handle"
    /\ UNCHANGED <<e, disk, site, max_depth, cur, processed_any_url,
                   consecutive_empty_checks, urls_processed_this_session,
                   shutdown_requested, ret_pc, lastOp, opCount, fetch, store, workers, canon, crawler>>

\* how the handler of a page can end: its result says success ("completed"),
\* success with data.filtered ("filtered") or failure, which it also does
\* when the file store raises ("storage_error")
HandlerOutcomes == {"completed", "filtered", "error", "storage_error"}

\* error_message of process_page when _fetch_page returned None
FetchFailedMessage == Message("Failed to fetch page content", {"content"})

\* error_message of _process_url for a page type that is neither category
\* nor article
UnknownTypeMessage == Message("Unknown page type", {})

\* error_message of the ProcessResult of a handler that failed: of
\* process_article, of ArticlePageHandler._save_article's caller, and
\* str(e) of process_category
handler_error_message(result, outcome) ==
    IF outcome = "storage_error"
    THEN IF result = "article"
         THEN Message("Failed to save article: Cannot save article data: Failed to save file atomically: [Errno 28] No space left on device",
                      {"save"})
         ELSE Message("Cannot save category data: Failed to save file atomically: [Errno 28] No space left on device",
                      {"save"})
    ELSE IF result = "article"
    THEN Message("No article content found", {"content"})
    ELSE Message("'NoneType' object has no attribute 'find_all'", {})

\* the error_message _process_url passes to update_progress
recorded_message(s, url, result) ==
    IF result = "failed" THEN FetchFailedMessage
    ELSE IF result = "unknown" THEN UnknownTypeMessage
    ELSE IF s.outcome[url.id] \in {"error", "storage_error"}
    THEN handler_error_message(result, s.outcome[url.id])
    ELSE NoMessage

StorageErrorCompletes(s, url, result) ==
    IF result = "failed" \/ result = "unknown" THEN "ERROR"
    ELSE IF s.outcome[url.id] = "error" THEN "ERROR"
    ELSE IF result = "article" /\ s.outcome[url.id] = "filtered" THEN "FILTERED"
    ELSE "COMPLETED"

\* the status _process_url records for the page
terminal_status(s, url, result) ==
    IF result = "failed" \/ result = "unknown" THEN "ERROR"
    ELSE IF s.outcome[url.id] \in {"error", "storage_error"} THEN "ERROR"
    ELSE IF result = "article" /\ s.outcome[url.id] = "filtered" THEN "FILTERED"
    ELSE "COMPLETED"

\* the URLType _process_url records for the page
recorded_type(item, result) ==
    IF result = "category" THEN "CATEGORY"
    ELSE IF result = "article" THEN "ARTICLE"
    ELSE item.url_type

\* _process_url, second half: _process_category_page or
\* _process_article_page, update_progress and the session counter
HandleStep ==
    /\ pc = "handle"
    /\ LET st == terminal_status(site, cur.url, page_result)
           qd == IF page_result = "category" /\ st = "COMPLETED"
                 THEN EnqueueAll([q |-> q, d |-> d],
                                 discovered_urls(site, cur.url, cur.depth, max_depth),
                                 cur.depth)
                 ELSE [q |-> q, d |-> d]
       IN  /\ q' = qd.q
           /\ d' = qd.d
           /\ e' = Progress_update_progress_error(
                        e, cur.url, st, recorded_type(cur, page_result),
                        recorded_message(site, cur.url, page_result))
    /\ urls_processed_this_session' =
            IF page_result = "failed" THEN urls_processed_this_session
            ELSE urls_processed_this_session + 1
    /\ hist' = [hist EXCEPT
                  !.finished = @ \cup {Canon(cur.url)},
                  !.refinished = IF Canon(cur.url) \in hist.finished
                                 THEN @ \cup {Canon(cur.url)} ELSE @]
    /\ pc' = "after"
    /\ UNCHANGED <<disk, site, max_depth, cur, page_result, processed_any_url,
                   consecutive_empty_checks, shutdown_requested, ret_pc,
                   lastOp, opCount, fetch, store, workers, canon, crawler>>

\* _crawl_loop after _process_url: update_pending_count and the periodic
\* _save_state
AfterStep ==
    /\ pc = "after"
    /\ e' = Progress_update_pending_count(e, Queue_size(q))
    /\ IF urls_processed_this_session % save_every = 0
       THEN pc' = "save_q" /\ ret_pc' = "loop"
       ELSE pc' = "loop" /\ ret_pc' = ret_pc
    /\ hist' = [hist EXCEPT !.since_save = @ + 1]
    /\ UNCHANGED <<q, d, disk, site, max_depth, cur, page_result,
                   processed_any_url, consecutive_empty_checks,
                   urls_processed_this_session, shutdown_requested,
                   lastOp, opCount, fetch, store, workers, canon, crawler>>

FinalStepWithoutSave ==
    /\ pc = "final"
    /\ e' = Progress_stop_crawling(e)
    /\ pc' = "done"
    /\ ret_pc' = "done"
    /\ UNCHANGED <<q, d, disk, site, max_depth, cur, page_result,
                   processed_any_url, consecutive_empty_checks,
                   urls_processed_this_session, shutdown_requested,
                   hist, lastOp, opCount, fetch, store, workers, canon, crawler>>

\* the finally block of _crawl_loop: stop_crawling, then _save_state
FinalStep ==
    /\ pc = "final"
    /\ e' = Progress_stop_crawling(e)
    /\ pc' = "save_q"
    /\ ret_pc' = "done"
    /\ UNCHANGED <<q, d, disk, site, max_depth, cur, page_result,
                   processed_any_url, consecutive_empty_checks,
                   urls_processed_this_session, shutdown_requested,
                   hist, lastOp, opCount, fetch, store, workers, canon, crawler>>

\* _save_state: url_queue.save_state()
SaveQueue ==
    /\ pc = "save_q"
    /\ disk' = [disk EXCEPT !.queue = OkFile(Queue_save_state(q))]
    /\ pc' = "save_d"
    /\ UNCHANGED <<q, d, e, site, max_depth, cur, page_result,
                   processed_any_url, consecutive_empty_checks,
                   urls_processed_this_session, shutdown_requested, ret_pc,
                   hist, lastOp, opCount, fetch, store, workers, canon, crawler>>

\* _save_state: deduplication.save_state()
SaveDedup ==
    /\ pc = "save_d"
    /\ disk' = [disk EXCEPT !.dedup = OkFile(Dedup_save_state(d))]
    /\ pc' = "save_p"
    /\ UNCHANGED <<q, d, e, site, max_depth, cur, page_result,
                   processed_any_url, consecutive_empty_checks,
                   urls_processed_this_session, shutdown_requested, ret_pc,
                   hist, lastOp, opCount, fetch, store, workers, canon, crawler>>

\* _save_state: progress_tracker.save_state(); then back to the loop or,
\* from the finally block, to the end of the thread
SaveProgress ==
    /\ pc = "save_p"
    /\ disk' = [disk EXCEPT !.progress = OkFile(Progress_save_state(e))]
    /\ e' = Progress_after_save_state(e)
    /\ pc' = ret_pc
    /\ hist' = [hist EXCEPT !.since_save = 0]
    /\ UNCHANGED <<q, d, site, max_depth, cur, page_result,
                   processed_any_url, consecutive_empty_checks,
                   urls_processed_this_session, shutdown_requested, ret_pc,
                   lastOp, opCount, fetch, store, workers, canon, crawler>>

\* stop_crawling (also the SIGINT / SIGTERM handler): request the shutdown
StopCrawling ==
    /\ pc \in {"loop", "process", "handle", "after", "save_q", "save_d", "save_p"}
    /\ ret_pc # "done"
    /\ ~shutdown_requested
    /\ shutdown_requested' = TRUE
    /\ hist' = [hist EXCEPT !.stops = @ + 1]
    /\ UNCHANGED <<q, d, e, disk, site, max_depth, pc, cur, page_result,
                   processed_any_url, consecutive_empty_checks,
                   urls_processed_this_session, ret_pc, lastOp, opCount, fetch, store, workers, canon, crawler>>

CorruptQueueFile == [kind |-> "corrupt", doc |-> EmptyQueueDoc]
CorruptDedupFile == [kind |-> "corrupt", doc |-> EmptyDedupDoc]

\* the files a kill can leave: open(path, 'w') truncates the queue file and
\* the dedup file before json.dump writes them; the progress file is
\* written to a temporary file and renamed
FilesAfterKill ==
    IF pc = "save_q" THEN {disk, [disk EXCEPT !.queue = CorruptQueueFile]}
    ELSE IF pc = "save_d" THEN {disk, [disk EXCEPT !.dedup = CorruptDedupFile]}
    ELSE {disk}

\* the URLs that are discovered and not finished: those on the frontier and
\* the one _process_url is working on
DiscoveredUnfinished ==
    ({Canon(it.url) : it \in q.heap}
        \cup (IF pc \in {"process", "handle"} THEN {Canon(cur.url)} ELSE {}))
    \ hist.finished

\* the process is killed (SIGKILL, power loss): what is in memory is lost
Kill ==
    /\ pc \in {"loop", "process", "handle", "after", "final",
               "save_q", "save_d", "save_p"}
    /\ hist.kills < MaxKills
    /\ disk' \in FilesAfterKill
    /\ q' = Queue_init
    /\ d' = Dedup_init
    /\ e' = Progress_init
    /\ pc' = "dead"
    /\ cur' = NoItem
    /\ page_result' = "none"
    /\ processed_any_url' = FALSE
    /\ consecutive_empty_checks' = 0
    /\ urls_processed_this_session' = 0
    /\ shutdown_requested' = FALSE
    /\ ret_pc' = "none"
    /\ hist' = [hist EXCEPT !.kills = @ + 1, !.finished_at_kill = hist.finished,
                            !.pending_at_kill = DiscoveredUnfinished]
    /\ UNCHANGED <<site, max_depth, lastOp, opCount, fetch, store, workers, canon, crawler>>

NextCrawl ==
    \/ Start
    \/ ExitOnShutdown
    \/ EmptyCheck
    \/ DequeueSkip
    \/ Dequeue
    \/ FetchStep
    \/ HandleStep
    \/ AfterStep
    \/ FinalStep
    \/ SaveQueue
    \/ SaveDedup
    \/ SaveProgress
    \/ StopCrawling

\* a crawl that is stopped and started again, never killed
SpecCrawl == InitCrawl /\ [][NextCrawl]_vars

\* the crawls that are killed run on the star, the variants and the faulty
\* site
InitKill == InitCrawl /\ site \in FixtureSites

\* the steps of the crawl thread
LoopThread ==
    \/ ExitOnShutdown
    \/ EmptyCheck
    \/ DequeueSkip
    \/ Dequeue
    \/ FetchStep
    \/ HandleStep
    \/ AfterStep
    \/ FinalStep
    \/ SaveQueue
    \/ SaveDedup
    \/ SaveProgress

\* the crawls whose thread is taken to keep running are those of the
\* variants and the faulty site
InitStop == InitCrawl /\ site \in {VariantSite, FaultySite}

\* a crawl whose thread, once started, keeps running until it ends
SpecStop == InitStop /\ [][NextCrawl]_vars /\ WF_vars(LoopThread)

\* the state a crawl leaves that has handled the seed of the variants site
\* and has queued category 1 and article 2
SavedQueue ==
    Queue_add_url(
        Queue_add_url(
            Queue_mark_completed(
                Queue_get_next_url(Queue_add_url(Queue_init, start_url, "CATEGORY", 0)),
                start_url),
            PlainUrl(TRUE, 1), "CATEGORY", 1),
        PlainUrl(FALSE, 2), "ARTICLE", 0)

SavedDedup == Dedup_mark_processed(Dedup_init, start_url)

SavedProgress ==
    Progress_update_progress(Progress_start_crawling(Progress_init),
                             start_url, "COMPLETED", "CATEGORY")

\* the saved queue document, its k-th item carrying a url_type that
\* URLType(...) rejects
MalformedQueueDoc(k) ==
    LET doc == Queue_save_state(SavedQueue)
    IN  [doc EXCEPT !.queue_items[k].url_item.url_type = "bogus"]

CorruptProgressFile == [kind |-> "corrupt", doc |-> EmptyProgressDoc]

\* the state files a crawler can find: absent, no JSON, written by a crawl,
\* or JSON with an item that cannot be restored
FoundQueueFiles ==
    {AbsentQueueFile, CorruptQueueFile, OkFile(Queue_save_state(SavedQueue))}
        \cup {OkFile(MalformedQueueDoc(k)) : k \in 1..Queue_size(SavedQueue)}

FoundDedupFiles ==
    {AbsentDedupFile, CorruptDedupFile, OkFile(Dedup_save_state(SavedDedup))}

FoundProgressFiles ==
    {AbsentProgressFile, CorruptProgressFile, OkFile(Progress_save_state(SavedProgress))}

\* a crawl of the variants site that is started on a state directory as
\* found
InitLoad ==
    /\ q = Queue_init
    /\ d = Dedup_init
    /\ e = Progress_init
    /\ disk \in [queue : FoundQueueFiles, dedup : FoundDedupFiles,
                  progress : FoundProgressFiles]
    /\ site = VariantSite
    /\ max_depth \in 0..MaxDepthBound
    /\ pc = "dead"
    /\ cur = NoItem
    /\ page_result = "none"
    /\ processed_any_url = FALSE
    /\ consecutive_empty_checks = 0
    /\ urls_processed_this_session = 0
    /\ shutdown_requested = FALSE
    /\ ret_pc = "none"
    /\ hist = NoHist
    /\ lastOp = NoLastOp
    /\ opCount = 0
    /\ fetch = NoFetch
    /\ store = NoStore
    /\ workers = NoWorkers
    /\ canon = NoCanon
    /\ crawler = NoCrawler

SpecLoad == InitLoad /\ [][NextCrawl]_vars

\* a crawl whose process can also be killed
SpecKill == InitKill /\ [][NextCrawl \/ Kill]_vars

(***************************************************************************)
(* F: the fetcher (PageProcessor._fetch_page): the attempt schedule, the   *)
(* connectivity probe, the prompt of the operator and the retry cycles.    *)
(***************************************************************************)
\* max_user_retry_cycles of _handle_failed_url_with_connectivity_check
max_user_retry_cycles == 3

\* the status codes a GET is answered with, and the exceptions it raises
StatusCodes == {200, 301, 400, 403, 404, 408, 410, 429, 451, 503}

GetOutcomes ==
    {[exc |-> "none", code |-> c] : c \in StatusCodes}
        \cup {[exc |-> x, code |-> 0] : x \in {"conn", "timeout", "redirects"}}

\* `response.status_code in [404, 403, 410, 451]`
IsPermanentFailure(code) == code \in {404, 403, 410, 451}

\* `400 <= response.status_code < 500 and response.status_code not in [429, 408]`
IsClientError(code) == 400 <= code /\ code < 500 /\ code \notin {429, 408}

\* the end of a round of the attempt loop that neither returned nor gave
\* up: a backoff wait if a retry is left, else the loop is left
AttemptOffByOne(f) ==
    IF f.attempt + 1 < f.max_retries
    THEN [f EXCEPT !.pc = "wait"]
    ELSE [f EXCEPT !.pc = "probe"]

AfterAttempt(f) ==
    IF f.attempt < f.max_retries
    THEN [f EXCEPT !.pc = "wait"]
    ELSE [f EXCEPT !.pc = "probe"]

\* a response with a status code, in either attempt loop; gave_up is what
\* `return None` inside the loop leads to
PermanentFailureRetried(f, code, gave_up) ==
    LET g == [f EXCEPT !.stats.requests_made = @ + 1]
    IN  IF code = 200
        THEN [g EXCEPT !.stats.successful_requests = @ + 1,
                       !.stats.user_retry_successes =
                            IF f.phase = "retry" THEN @ + 1 ELSE @,
                       !.pc = "returned", !.result = "response"]
        ELSE IF IsPermanentFailure(code)
        THEN AfterAttempt([g EXCEPT !.stats.failed_requests = @ + 1,
                                    !.stats.permanent_failures = @ + 1])
        ELSE IF IsClientError(code)
        THEN [g EXCEPT !.stats.failed_requests = @ + 1,
                       !.stats.client_errors = @ + 1,
                       !.pc = gave_up,
                       !.result = IF gave_up = "returned" THEN "none" ELSE @]
        ELSE AfterAttempt([g EXCEPT !.stats.failed_requests = @ + 1])

OnResponse(f, code, gave_up) ==
    LET g == [f EXCEPT !.stats.requests_made = @ + 1]
    IN  IF code = 200
        THEN [g EXCEPT !.stats.successful_requests = @ + 1,
                       !.stats.user_retry_successes =
                            IF f.phase = "retry" THEN @ + 1 ELSE @,
                       !.pc = "returned", !.result = "response"]
        ELSE IF IsPermanentFailure(code)
        THEN [g EXCEPT !.stats.failed_requests = @ + 1,
                       !.stats.permanent_failures = @ + 1,
                       !.pc = gave_up,
                       !.result = IF gave_up = "returned" THEN "none" ELSE @]
        ELSE IF IsClientError(code)
        THEN [g EXCEPT !.stats.failed_requests = @ + 1,
                       !.stats.client_errors = @ + 1,
                       !.pc = gave_up,
                       !.result = IF gave_up = "returned" THEN "none" ELSE @]
        ELSE AfterAttempt([g EXCEPT !.stats.failed_requests = @ + 1])

\* one round of the attempt loop of _fetch_page: the GET and its handling
fetch_page_get(f, o) ==
    IF o.exc = "none" THEN OnResponse(f, o.code, "returned")
    ELSE IF o.exc = "conn"
    THEN AfterAttempt([f EXCEPT !.stats.connection_errors = @ + 1])
    ELSE IF o.exc = "timeout"
    THEN AfterAttempt([f EXCEPT !.stats.timeout_errors = @ + 1])
    ELSE IF o.exc = "redirects"
    THEN [f EXCEPT !.stats.redirect_errors = @ + 1,
                   !.pc = "returned", !.result = "none"]
    ELSE AfterAttempt([f EXCEPT !.stats.other_errors = @ + 1])

RetryGetExtraAttempt(f, o) ==
    IF o.exc = "none" THEN OnResponse(f, o.code, "probe")
    ELSE IF o.exc = "conn"
    THEN AfterAttempt([f EXCEPT !.stats.connection_errors = @ + 1])
    ELSE IF o.exc = "timeout"
    THEN IF f.attempt <= f.max_retries
         THEN [f EXCEPT !.stats.timeout_errors = @ + 1, !.pc = "wait"]
         ELSE [f EXCEPT !.stats.timeout_errors = @ + 1, !.pc = "probe"]
    ELSE AfterAttempt([f EXCEPT !.stats.other_errors = @ + 1])

\* one round of the attempt loop of _retry_url_after_user_choice, which has
\* no handler of its own for TooManyRedirects; when it returns None the
\* caller tests the connectivity again
retry_get(f, o) ==
    IF o.exc = "none" THEN OnResponse(f, o.code, "probe")
    ELSE IF o.exc = "conn"
    THEN AfterAttempt([f EXCEPT !.stats.connection_errors = @ + 1])
    ELSE IF o.exc = "timeout"
    THEN AfterAttempt([f EXCEPT !.stats.timeout_errors = @ + 1])
    ELSE AfterAttempt([f EXCEPT !.stats.other_errors = @ + 1])

\* a failure the fetcher is to retry: 408, 429, 5xx, connection error,
\* timeout
IsTransient(o) ==
    \/ o.exc \in {"conn", "timeout"}
    \/ o.exc = "none" /\ (o.code \in {408, 429} \/ (500 <= o.code /\ o.code <= 599))

\* the variables a call of _fetch_page leaves alone
nonFetchVars ==
    <<q, d, e, disk, site, max_depth, pc, cur, page_result, processed_any_url,
      consecutive_empty_checks, urls_processed_this_session,
      shutdown_requested, ret_pc, hist, lastOp, opCount, store, workers, canon, crawler>>

\* session.get(url) in either attempt loop
FetchGet(o) ==
    /\ fetch.pc = "get"
    /\ LET f == [fetch EXCEPT
                    !.gets = @ + 1,
                    !.last_get = o,
                    !.last_step = "get",
                    !.only_conn = @ /\ o.exc = "conn",
                    !.only_transient = @ /\ IsTransient(o),
                    !.redirected = @ \/ o.exc = "redirects",
                    !.since_get = "lt_D"]
       IN  fetch' = IF fetch.phase = "initial"
                    THEN fetch_page_get(f, o) ELSE retry_get(f, o)
    /\ UNCHANGED nonFetchVars

\* time.sleep(wait_time) before the next attempt
FetchWait ==
    /\ fetch.pc = "wait"
    /\ fetch' = [fetch EXCEPT !.stats.retries_attempted = @ + 1,
                              !.attempt = @ + 1,
                              !.waits = @ + 1,
                              !.last_step = "wait",
                              !.since_get = "ge_D",
                              !.pc = "get"]
    /\ UNCHANGED nonFetchVars

\* _test_network_connectivity: the statistics after the call
test_network_connectivity(f, ok) ==
    [f EXCEPT !.stats.connectivity_tests = @ + 1,
              !.stats.connectivity_successes = IF ok THEN @ + 1 ELSE @,
              !.stats.connectivity_failures = IF ok THEN @ ELSE @ + 1,
              !.probe_ok_seen = @ \/ ok,
              !.last_step = "probe"]

ProbeSuccessPrompts(f, ok) ==
    LET g == test_network_connectivity(f, ok)
    IN  IF f.phase = "retry" /\ f.user_retry_cycle >= max_user_retry_cycles
        THEN [g EXCEPT !.stats.skipped_urls = @ + 1,
                       !.stats.total_failures = @ + 1,
                       !.stats.circuit_breaker_activations = @ + 1,
                       !.pc = "returned", !.result = "none"]
        ELSE [g EXCEPT !.pc = "prompt", !.prompts = @ + 1]

\* _handle_failed_url_with_connectivity_check: the connectivity test after
\* _fetch_page's attempts (phase "initial") or after a retry cycle, and
\* what follows it up to the next prompt or the return
after_probe(f, ok) ==
    LET g == test_network_connectivity(f, ok)
    IN  IF ok
        THEN [g EXCEPT !.stats.total_failures = @ + 1,
                       !.pc = "returned", !.result = "none"]
        ELSE IF f.phase = "retry" /\ f.user_retry_cycle >= max_user_retry_cycles
        THEN [g EXCEPT !.stats.skipped_urls = @ + 1,
                       !.stats.total_failures = @ + 1,
                       !.stats.circuit_breaker_activations = @ + 1,
                       !.pc = "returned", !.result = "none"]
        ELSE [g EXCEPT !.pc = "prompt", !.prompts = @ + 1]

\* the GET to https://www.google.com and what the handler does with it
FetchProbe(ok) ==
    /\ fetch.pc = "probe"
    /\ fetch' = after_probe(fetch, ok)
    /\ UNCHANGED nonFetchVars

\* what the operator can do at the prompt: type a line, in any case and
\* with blanks around it, close standard input, or interrupt
Replies ==
    [kind : {"text"}, text : {"continue", "skip", "retry"},
     upper : BOOLEAN, padded : BOOLEAN]
        \cup [kind : {"eof", "interrupt"}, text : {""}, upper : {FALSE},
              padded : {FALSE}]

\* a line typed in lower case and without blanks around it
Typed(t) == [kind |-> "text", text |-> t, upper |-> FALSE, padded |-> FALSE]

\* input(...).strip().lower(): the line without its blanks, in lower case
strip_lower(r) == [r EXCEPT !.upper = FALSE, !.padded = FALSE]

\* _prompt_user_for_action: the choice a reply leads to; "invalid" stands
\* for the next round of its loop
InterruptContinues(r) ==
    IF r.kind = "eof" THEN "skip"
    ELSE IF r.kind = "interrupt" THEN "continue"
    ELSE IF strip_lower(r) \in {Typed("continue"), Typed("skip")}
    THEN strip_lower(r).text
    ELSE "invalid"

prompt_choice(r) ==
    IF r.kind \in {"eof", "interrupt"} THEN "skip"
    ELSE IF strip_lower(r) \in {Typed("continue"), Typed("skip")}
    THEN strip_lower(r).text
    ELSE "invalid"

\* the while loop of _handle_failed_url_with_connectivity_check after
\* _prompt_user_for_action returned choice
ContinueCountsTwice(f, choice) ==
    IF choice = "skip"
    THEN [f EXCEPT !.stats.skipped_urls = @ + 1,
                   !.stats.total_failures = @ + 1,
                   !.pc = "returned", !.result = "none"]
    ELSE IF choice = "continue"
    THEN [f EXCEPT !.user_retry_cycle = @ + 2,
                   !.stats.user_retries = @ + 1,
                   !.phase = "retry", !.attempt = 0,
                   !.invalid_replies = 0,
                   !.pc = "get"]
    ELSE [f EXCEPT !.invalid_replies = @ + 1]

after_choice(f, choice) ==
    IF choice = "skip"
    THEN [f EXCEPT !.stats.skipped_urls = @ + 1,
                   !.stats.total_failures = @ + 1,
                   !.pc = "returned", !.result = "none"]
    ELSE IF choice = "continue"
    THEN [f EXCEPT !.user_retry_cycle = @ + 1,
                   !.stats.user_retries = @ + 1,
                   !.phase = "retry", !.attempt = 0,
                   !.invalid_replies = 0,
                   !.pc = "get"]
    ELSE [f EXCEPT !.invalid_replies = @ + 1]

\* the operator replies to the prompt
FetchReply(r) ==
    /\ fetch.pc = "prompt"
    /\ prompt_choice(r) = "invalid" => fetch.invalid_replies < MaxInvalidReplies
    /\ fetch' = after_choice(
                    [fetch EXCEPT
                        !.last_reply = IF r.kind = "text" THEN r.text
                                       ELSE r.kind,
                        !.last_step = "reply",
                        !.other_reply_seen = @ \/ r.text # "continue"],
                    prompt_choice(r))
    /\ UNCHANGED nonFetchVars

\* one call of _fetch_page by a PageProcessor with max_retries retries
InitFetch ==
    /\ q = Queue_init
    /\ d = Dedup_init
    /\ e = Progress_init
    /\ disk = EmptyDisk
    /\ site = NoSite
    /\ max_depth = 0
    /\ pc = "fetch"
    /\ cur = NoItem
    /\ page_result = "none"
    /\ processed_any_url = FALSE
    /\ consecutive_empty_checks = 0
    /\ urls_processed_this_session = 0
    /\ shutdown_requested = FALSE
    /\ ret_pc = "none"
    /\ hist = NoHist
    /\ lastOp = NoLastOp
    /\ opCount = 0
    /\ \E r \in 0..MaxRetriesBound :
            fetch = [NoFetch EXCEPT !.pc = "get", !.max_retries = r]
    /\ store = NoStore
    /\ workers = NoWorkers
    /\ canon = NoCanon
    /\ crawler = NoCrawler

NextFetch ==
    \/ \E o \in GetOutcomes : FetchGet(o)
    \/ FetchWait
    \/ \E ok \in BOOLEAN : FetchProbe(ok)
    \/ \E r \in Replies : FetchReply(r)

SpecFetch == InitFetch /\ [][NextFetch]_vars

\* stop_crawling or a signal sets _shutdown_requested while the crawl thread
\* is inside _fetch_page
StopDuringFetch ==
    /\ pc = "fetch"
    /\ fetch.pc # "returned"
    /\ ~shutdown_requested
    /\ shutdown_requested' = TRUE
    /\ UNCHANGED <<q, d, e, disk, site, max_depth, pc, cur, page_result,
                   processed_any_url, consecutive_empty_checks,
                   urls_processed_this_session, ret_pc, hist, lastOp, opCount,
                   fetch, store, workers, canon, crawler>>

\* a PageProcessor with at most one retry
InitFetchStop == InitFetch /\ fetch.max_retries <= 1

\* one call of _fetch_page during which a shutdown may be requested
SpecFetchStop == InitFetchStop /\ [][NextFetch \/ StopDuringFetch]_vars

\* the url_item whose page the call of _fetch_page is to fetch
fetched_item ==
    [priority |-> priority_map("CATEGORY"), url |-> start_url,
     url_type |-> "CATEGORY", depth |-> 0]

\* _process_url around one call of _fetch_page: mark_processed and
\* mark_completed, what process_page makes of the value _fetch_page
\* returned, the handler, update_progress
RecordFetch ==
    /\ pc = "fetch"
    /\ fetch.pc = "returned"
    /\ LET result == IF fetch.result = "none" THEN "failed"
                     ELSE process_page(site, fetched_item.url)
       IN  /\ page_result' = result
           /\ e' = Progress_update_progress_error(
                        e, fetched_item.url,
                        terminal_status(site, fetched_item.url, result),
                        recorded_type(fetched_item, result),
                        recorded_message(site, fetched_item.url, result))
           /\ urls_processed_this_session' =
                    IF result = "failed" THEN urls_processed_this_session
                    ELSE urls_processed_this_session + 1
    /\ d' = Dedup_mark_processed(d, fetched_item.url)
    /\ q' = Queue_mark_completed(q, fetched_item.url)
    /\ cur' = fetched_item
    /\ pc' = "recorded"
    /\ UNCHANGED <<disk, site, max_depth, processed_any_url,
                   consecutive_empty_checks, shutdown_requested, ret_pc,
                   hist, lastOp, opCount, fetch, store, workers, canon, crawler>>

\* one URL is fetched and its outcome recorded
SpecPage == InitFetch /\ [][NextFetch \/ RecordFetch]_vars

(***************************************************************************)
(* B: the file store (FileStorage), the files below its output directory   *)
(* and the threads that save records through it.                           *)
(***************************************************************************)
\* folder_config: organize_by and create_subfolders
Layouts ==
    {[organize_by |-> "flat", create_subfolders |-> FALSE],
     [organize_by |-> "type", create_subfolders |-> FALSE],
     [organize_by |-> "category", create_subfolders |-> TRUE],
     [organize_by |-> "date", create_subfolders |-> FALSE]}

PageTypes == {"category", "article"}

\* the titles of the records saved; ":" is a character sanitize_filename
\* replaces by "_"
Titles == {"X", "X:1"}

\* sanitize_wikipedia_title: "X" gives X.json and "X:1" gives X_1.json,
\* with category_ in front for a category page
sanitize_wikipedia_title(title, page_type) ==
    FileName(page_type = "category", "X",
             IF title = "X:1" THEN <<1>> ELSE <<>>)

\* FileStorage._get_target_directory
get_target_directory(layout, content_type) ==
    LET sub == IF content_type = "category" THEN "categories" ELSE "articles"
    IN  IF layout.organize_by = "flat" THEN <<>>
        ELSE IF layout.organize_by = "category"
        THEN IF layout.create_subfolders
             THEN <<"Category_Singapore", sub>> ELSE <<"Category_Singapore">>
        ELSE IF layout.organize_by = "date"
        THEN IF layout.create_subfolders
             THEN <<"today", content_type>> ELSE <<"today">>
        ELSE <<sub>>

\* a file name as an element of _existing_files: the relative path of a
\* file of the output directory itself
Bare(name) == FilePath(<<>>, name)

\* create_unique_filename
create_unique_filename(base_filename, existing_files) ==
    IF Bare(base_filename) \notin existing_files THEN base_filename
    ELSE LET free == {c \in 1..(Cardinality(existing_files) + 1) :
                        Bare([base_filename EXCEPT !.sfx = Append(@, c)])
                            \notin existing_files}
             counter == CHOOSE c \in free : \A c2 \in free : c <= c2
         IN  [base_filename EXCEPT !.sfx = Append(@, counter)]

ReserveWithoutAdding(existing_files, filename) ==
    [unique_filename |-> create_unique_filename(filename, existing_files),
     existing_files |-> existing_files]

\* `with self._lock:` of save_category and save_article: the name chosen
\* and _existing_files after it
reserve_name(existing_files, filename) ==
    LET unique_filename == create_unique_filename(filename, existing_files)
    IN  [unique_filename |-> unique_filename,
         existing_files |-> existing_files \cup {Bare(unique_filename)}]

\* FileStorage._load_existing_files: the relative paths of the *.json files
\* found below the output directory
load_existing_files(files) == DOMAIN files

\* the variables the file store leaves alone
nonStoreVars ==
    <<q, d, e, disk, site, max_depth, pc, cur, page_result, processed_any_url,
      consecutive_empty_checks, urls_processed_this_session,
      shutdown_requested, ret_pc, hist, lastOp, opCount, fetch, workers,
      canon, crawler>>

\* a thread is inside save_category or save_article
InFlight(t) == store.calls[t].pc # "idle"

\* save_category / save_article up to the end of the locked block: the
\* file name, the target directory, the reservation of the name; the
\* threads being alike, a call is run by the first thread that is free
SaveBegin(t, title, page_type) ==
    /\ pc = "store"
    /\ ~InFlight(t)
    /\ \A t2 \in 1..(t - 1) : InFlight(t2)
    /\ store.saves < MaxSaves
    /\ LET r == reserve_name(store.existing,
                             sanitize_wikipedia_title(title, page_type))
       IN  store' = [store EXCEPT
                !.existing = r.existing_files,
                !.saves = @ + 1,
                !.calls[t] = [pc |-> "write", title |-> title,
                              page_type |-> page_type, rec |-> store.saves + 1,
                              path |-> FilePath(
                                    get_target_directory(store.layout, page_type),
                                    r.unique_filename)]]
    /\ UNCHANGED nonStoreVars

\* _save_json_atomic, the with block: the temporary file is created in the
\* target directory and the record written to it; when json.dump or flush
\* raises, temp_path is not yet bound and the handler removes nothing; when
\* the temporary file cannot be created there is nothing to remove
SaveWrite(t, how) ==
    /\ pc = "store"
    /\ store.calls[t].pc = "write"
    /\ LET c == store.calls[t]
           tmpfile == [dir |-> c.path.dir, rec |-> c.rec, complete |-> how = "ok"]
       IN  store' = [store EXCEPT
                !.tmp = IF how = "create_fails" THEN @ ELSE @ \cup {tmpfile},
                !.calls[t] = IF how = "ok" THEN [c EXCEPT !.pc = "replace"]
                             ELSE NoCall,
                !.last = IF how = "ok" THEN @
                         ELSE [outcome |-> "failed", rec |-> c.rec]]
    /\ UNCHANGED nonStoreVars

\* _save_json_atomic, temp_path.replace(file_path), and the return of the
\* path; when replace raises the handler unlinks the temporary file
SaveReplace(t, ok) ==
    /\ pc = "store"
    /\ store.calls[t].pc = "replace"
    /\ LET c == store.calls[t]
           tmpfile == [dir |-> c.path.dir, rec |-> c.rec, complete |-> TRUE]
       IN  store' = [store EXCEPT
                !.tmp = @ \ {tmpfile},
                !.files = IF ok THEN MapPut(@, c.path, c.rec) ELSE @,
                !.returned = IF ok
                             THEN @ \cup {[path |-> c.path, rec |-> c.rec,
                                           title |-> c.title,
                                           page_type |-> c.page_type]}
                             ELSE @,
                !.calls[t] = NoCall,
                !.last = [outcome |-> IF ok THEN "returned" ELSE "failed",
                          rec |-> c.rec]]
    /\ UNCHANGED nonStoreVars

\* a new process constructs a FileStorage over the same output directory
Reopen ==
    /\ pc = "store"
    /\ \A t \in 1..MaxSavers : ~InFlight(t)
    /\ store.reopens < MaxReopens
    /\ store' = [store EXCEPT
            !.existing = load_existing_files(store.files),
            !.returned = {},
            !.last = [outcome |-> "none", rec |-> 0],
            !.reopens = @ + 1]
    /\ UNCHANGED nonStoreVars

\* FileStorage.__init__ over an empty output directory
InitStore ==
    /\ q = Queue_init
    /\ d = Dedup_init
    /\ e = Progress_init
    /\ disk = EmptyDisk
    /\ site = NoSite
    /\ max_depth = 0
    /\ pc = "store"
    /\ cur = NoItem
    /\ page_result = "none"
    /\ processed_any_url = FALSE
    /\ consecutive_empty_checks = 0
    /\ urls_processed_this_session = 0
    /\ shutdown_requested = FALSE
    /\ ret_pc = "none"
    /\ hist = NoHist
    /\ lastOp = NoLastOp
    /\ opCount = 0
    /\ fetch = NoFetch
    /\ workers = NoWorkers
    /\ canon = NoCanon
    /\ crawler = NoCrawler
    /\ \E layout \in Layouts : store = [NoStore EXCEPT !.layout = layout]

NextStore ==
    \/ \E t \in 1..MaxSavers, title \in Titles, page_type \in PageTypes :
            SaveBegin(t, title, page_type)
    \/ \E t \in 1..MaxSavers, how \in {"ok", "create_fails", "write_fails"} :
            SaveWrite(t, how)
    \/ \E t \in 1..MaxSavers, ok \in BOOLEAN : SaveReplace(t, ok)
    \/ Reopen

SpecStore == InitStore /\ [][NextStore]_vars

(***************************************************************************)
(* Several workers run the body of the loop of _crawl_loop side by side    *)
(* on one frontier, one registry and one tracker.  Each call of a          *)
(* component holds that component's lock, so a call is one step; between   *)
(* two calls of a worker the others may run.                               *)
(***************************************************************************)
\* the variables the workers leave alone
nonWorkerVars ==
    <<disk, site, max_depth, pc, cur, page_result, processed_any_url,
      consecutive_empty_checks, shutdown_requested, ret_pc, lastOp, opCount,
      fetch, store, canon, crawler>>

\* url_item = self.url_queue.get_next_url(), an item being returned
WDequeue(w) ==
    /\ pc = "workers"
    /\ workers[w].pc = "idle"
    /\ ~Queue_is_empty(q)
    /\ q' = Queue_get_next_url(q)
    /\ workers' = [workers EXCEPT ![w] =
                      [pc |-> "check", item |-> Queue_get_next_url_item(q),
                       marked_new |-> FALSE, page_result |-> "none"]]
    /\ UNCHANGED <<d, e, urls_processed_this_session, hist>>
    /\ UNCHANGED nonWorkerVars

\* if self.deduplication.is_processed(url_item.url): continue
WCheck(w) ==
    /\ pc = "workers"
    /\ workers[w].pc = "check"
    /\ d' = Dedup_after_is_processed(d, workers[w].item.url)
    /\ IF dequeued_is_processed(d, workers[w].item.url)
       THEN /\ workers' = [workers EXCEPT ![w] = NoWorkers[w]]
            /\ hist' = [hist EXCEPT
                          !.skipped = @ \cup {Canon(workers[w].item.url)}]
       ELSE /\ workers' = [workers EXCEPT ![w].pc = "process"]
            /\ hist' = hist
    /\ UNCHANGED <<q, e, urls_processed_this_session>>
    /\ UNCHANGED nonWorkerVars

\* _process_url: self.deduplication.mark_processed(url), whose value is
\* not looked at
WMark(w) ==
    /\ pc = "workers"
    /\ workers[w].pc = "process"
    /\ d' = Dedup_mark_processed(d, workers[w].item.url)
    /\ workers' = [workers EXCEPT
                      ![w].pc = "fetch",
                      ![w].marked_new =
                          Dedup_mark_processed_result(d, workers[w].item.url)]
    /\ UNCHANGED <<q, e, urls_processed_this_session, hist>>
    /\ UNCHANGED nonWorkerVars

\* _process_url: self.url_queue.mark_completed(url) and
\* self.page_processor.process_page(url)
WFetch(w) ==
    /\ pc = "workers"
    /\ workers[w].pc = "fetch"
    /\ q' = Queue_mark_completed(q, workers[w].item.url)
    /\ workers' = [workers EXCEPT
                      ![w].pc = "handle",
                      ![w].page_result = process_page(site, workers[w].item.url)]
    /\ hist' = [hist EXCEPT
                  !.fetched = @ \cup {Canon(workers[w].item.url)},
                  !.refetched = IF Canon(workers[w].item.url) \in hist.fetched
                                THEN @ \cup {Canon(workers[w].item.url)} ELSE @]
    /\ UNCHANGED <<d, e, urls_processed_this_session>>
    /\ UNCHANGED nonWorkerVars

\* _process_url, second half, and update_pending_count; on the sites the
\* workers crawl the session counter stays between 1 and 9, so that no
\* periodic _save_state falls due
WHandle(w) ==
    /\ pc = "workers"
    /\ workers[w].pc = "handle"
    /\ LET item == workers[w].item
           result == workers[w].page_result
           st == terminal_status(site, item.url, result)
           qd == IF result = "category" /\ st = "COMPLETED"
                 THEN EnqueueAll([q |-> q, d |-> d],
                                 discovered_urls(site, item.url, item.depth, max_depth),
                                 item.depth)
                 ELSE [q |-> q, d |-> d]
       IN  /\ q' = qd.q
           /\ d' = qd.d
           /\ e' = Progress_update_pending_count(
                        Progress_update_progress_error(
                            e, item.url, st, recorded_type(item, result),
                            recorded_message(site, item.url, result)),
                        Queue_size(qd.q))
           /\ hist' = [hist EXCEPT
                         !.finished = @ \cup {Canon(item.url)},
                         !.refinished = IF Canon(item.url) \in hist.finished
                                        THEN @ \cup {Canon(item.url)} ELSE @]
    /\ urls_processed_this_session' =
            IF workers[w].page_result = "failed"
            THEN urls_processed_this_session
            ELSE urls_processed_this_session + 1
    /\ workers' = [workers EXCEPT ![w] = NoWorkers[w]]
    /\ UNCHANGED nonWorkerVars

\* the workers start after _load_state found no files, the start URL was
\* added and progress tracking was started
InitWorkers ==
    /\ q = Queue_add_url(Queue_init, start_url, "CATEGORY", 0)
    /\ d = Dedup_init
    /\ e = Progress_start_crawling(Progress_init)
    /\ disk = EmptyDisk
    /\ site = VariantSite
    /\ max_depth \in 0..MaxDepthBound
    /\ pc = "workers"
    /\ cur = NoItem
    /\ page_result = "none"
    /\ processed_any_url = FALSE
    /\ consecutive_empty_checks = 0
    /\ urls_processed_this_session = 0
    /\ shutdown_requested = FALSE
    /\ ret_pc = "none"
    /\ hist = [NoHist EXCEPT !.sessions = 1]
    /\ lastOp = NoLastOp
    /\ opCount = 0
    /\ fetch = NoFetch
    /\ store = NoStore
    /\ workers = NoWorkers
    /\ canon = NoCanon
    /\ crawler = NoCrawler

NextWorkers ==
    \E w \in 1..MaxWorkers :
        \/ WDequeue(w)
        \/ WCheck(w)
        \/ WMark(w)
        \/ WFetch(w)
        \/ WHandle(w)

SpecWorkers == InitWorkers /\ [][NextWorkers]_vars

(***************************************************************************)
(* A site whose categories are reached along two paths of different        *)
(* length.                                                                 *)
(***************************************************************************)
\* WikipediaCrawler.max_depth of the crawl of the site below
DiamondDepth == MaxDepthBound + 1

\* the seed lists categories 1 and DiamondDepth and an article under two
\* spellings; category i < DiamondDepth - 1 lists category i + 1; categories
\* DiamondDepth - 1 and DiamondDepth both list category DiamondDepth + 1,
\* which lists category DiamondDepth + 2, which lists an article
DiamondSite ==
    LET n == DiamondDepth
        isCat == [i \in 0..(n + 4) |-> i <= n + 2]
    IN  [name |-> "diamond",
         pages |-> 0..(n + 4),
         cat |-> isCat,
         html |-> [i \in 0..(n + 4) |-> IF isCat[i] THEN "category" ELSE "article"],
         fetch_ok |-> [i \in 0..(n + 4) |-> TRUE],
         outcome |-> [i \in 0..(n + 4) |-> "completed"],
         links |-> [i \in 0..(n + 4) |->
                      IF i = 0
                      THEN {PlainUrl(TRUE, 1), PlainUrl(TRUE, n),
                            PlainUrl(FALSE, n + 3),
                            MkUrl(FALSE, n + 3, FALSE, FALSE, "none", TRUE)}
                      ELSE IF i < n - 1 THEN {PlainUrl(TRUE, i + 1)}
                      ELSE IF i = n - 1 \/ i = n THEN {PlainUrl(TRUE, n + 1)}
                      ELSE IF i = n + 1 THEN {PlainUrl(TRUE, n + 2)}
                      ELSE IF i = n + 2 THEN {PlainUrl(FALSE, n + 4)}
                      ELSE {}]]

\* a crawler constructed for the site above
InitDag ==
    /\ q = Queue_init
    /\ d = Dedup_init
    /\ e = Progress_init
    /\ disk = EmptyDisk
    /\ site = DiamondSite
    /\ max_depth = DiamondDepth
    /\ pc = "dead"
    /\ cur = NoItem
    /\ page_result = "none"
    /\ processed_any_url = FALSE
    /\ consecutive_empty_checks = 0
    /\ urls_processed_this_session = 0
    /\ shutdown_requested = FALSE
    /\ ret_pc = "none"
    /\ hist = NoHist
    /\ lastOp = NoLastOp
    /\ opCount = 0
    /\ fetch = NoFetch
    /\ store = NoStore
    /\ workers = NoWorkers
    /\ canon = NoCanon
    /\ crawler = NoCrawler

SpecDag == InitDag /\ [][NextCrawl]_vars

(***************************************************************************)
(* _normalize_url applied to pairs of URL strings.                         *)
(***************************************************************************)
\* the URL strings _normalize_url is applied to
CanonUrls ==
    {MkUrl(c, i, h, s, qy, f) :
        c \in BOOLEAN, i \in 0..1, h \in BOOLEAN, s \in BOOLEAN,
        qy \in Queries \cup RepeatedQueries, f \in BOOLEAN}

\* the settings a DeduplicationSystem is constructed with
AllSettings ==
    [normalize_urls : BOOLEAN, remove_fragments : BOOLEAN,
     sort_query_params : BOOLEAN]

\* two queries hold the same parameters, in whatever order
SameParameters(q1, q2) ==
    \/ q1 = q2
    \/ {q1, q2} = {"ab", "ba"}
    \/ {q1, q2} = {"a12", "a21"}

\* no parameter name occurs twice in the query
DistinctNames(qy) == qy \notin RepeatedQueries

\* two URL strings differ at most in the case of the host, the trailing
\* slash, the fragment and the order of the query parameters
DifferOnlyInSpelling(u, v) ==
    /\ u.cat = v.cat
    /\ u.id = v.id
    /\ SameParameters(u.query, v.query)

nonCanonVars ==
    <<q, e, disk, site, max_depth, pc, cur, page_result, processed_any_url,
      consecutive_empty_checks, urls_processed_this_session,
      shutdown_requested, ret_pc, hist, lastOp, opCount, fetch, store, workers,
      crawler>>

\* _normalize_url(u), _normalize_url(v) and _normalize_url(_normalize_url(u))
Normalize ==
    /\ pc = "canon"
    /\ ~canon.done
    /\ canon' = [canon EXCEPT
            !.cu = normalize_url(canon.u, d.settings),
            !.cv = normalize_url(canon.v, d.settings),
            !.ccu = normalize_url(normalize_url(canon.u, d.settings), d.settings),
            !.done = TRUE]
    /\ UNCHANGED d
    /\ UNCHANGED nonCanonVars

InitCanon ==
    /\ q = Queue_init
    /\ \E settings \in AllSettings : d = [Dedup_init EXCEPT !.settings = settings]
    /\ e = Progress_init
    /\ disk = EmptyDisk
    /\ site = NoSite
    /\ max_depth = 0
    /\ pc = "canon"
    /\ cur = NoItem
    /\ page_result = "none"
    /\ processed_any_url = FALSE
    /\ consecutive_empty_checks = 0
    /\ urls_processed_this_session = 0
    /\ shutdown_requested = FALSE
    /\ ret_pc = "none"
    /\ hist = NoHist
    /\ lastOp = NoLastOp
    /\ opCount = 0
    /\ fetch = NoFetch
    /\ store = NoStore
    /\ workers = NoWorkers
    /\ crawler = NoCrawler
    /\ \E u \in CanonUrls :
        \E v \in {w \in CanonUrls : DifferOnlyInSpelling(u, w)} :
            canon = [NoCanon EXCEPT !.u = u, !.v = v]

SpecCanon == InitCanon /\ [][Normalize]_vars

(***************************************************************************)
(* start_crawling, stop_crawling and the crawl threads they start.  A      *)
(* thread is "unborn" before Thread.start(), then inside _crawl_loop at    *)
(* "load" (_load_state and the seed), "loop" (the while test), "busy"      *)
(* (_process_url: fetching, backing off, waiting for the operator),        *)
(* "sleep" (the frontier was empty), "finally" (the finally block), and    *)
(* "dead" when _crawl_loop has returned.  last_call is the log message of  *)
(* the last start_crawling or stop_crawling call.                          *)
(***************************************************************************)
nonControlVars ==
    <<q, d, e, disk, site, max_depth, pc, cur, page_result, processed_any_url,
      consecutive_empty_checks, urls_processed_this_session,
      shutdown_requested, ret_pc, hist, lastOp, opCount, fetch, store, workers,
      canon>>

\* Thread.is_alive()
is_alive(t) == crawler.threads[t] \notin {"unborn", "dead"}

\* the threads that are inside _crawl_loop
AliveThreads == {t \in 1..MaxThreads : is_alive(t)}

\* start_crawling: nothing when _running; otherwise the flags are reset and
\* a new thread is started
StartCrawling ==
    /\ pc = "control"
    /\ crawler.stop_pc = "idle"
    /\ IF crawler.running
       THEN crawler' = [crawler EXCEPT !.last_call = "already running"]
       ELSE \E t \in 1..MaxThreads :
                /\ crawler.threads[t] = "unborn"
                /\ \A t2 \in 1..(t - 1) : crawler.threads[t2] # "unborn"
                /\ crawler' = [crawler EXCEPT
                        !.running = TRUE,
                        !.shutdown_requested = FALSE,
                        !.crawl_thread = t,
                        !.threads[t] = "load",
                        !.last_call = "started"]
    /\ UNCHANGED nonControlVars

\* stop_crawling up to the join: nothing when not _running; otherwise the
\* flag is set and the caller joins the thread if it is alive
StopCrawlingRequest ==
    /\ pc = "control"
    /\ crawler.stop_pc = "idle"
    /\ IF ~crawler.running
       THEN crawler' = [crawler EXCEPT !.last_call = "not running"]
       ELSE IF crawler.crawl_thread # 0 /\ is_alive(crawler.crawl_thread)
            THEN crawler' = [crawler EXCEPT
                    !.shutdown_requested = TRUE,
                    !.stop_pc = "join"]
            ELSE crawler' = [crawler EXCEPT
                    !.shutdown_requested = TRUE,
                    !.running = FALSE,
                    !.crawl_thread = 0,
                    !.last_call = "stopped"]
    /\ UNCHANGED nonControlVars

\* join(timeout=30) returns, because the thread has ended or because the
\* 30 seconds have passed while the thread is inside _process_url; then
\* _running and _crawl_thread are cleared in either case
StopCrawlingJoined ==
    /\ pc = "control"
    /\ crawler.stop_pc = "join"
    /\ \/ /\ ~is_alive(crawler.crawl_thread)
          /\ crawler' = [crawler EXCEPT
                !.running = FALSE,
                !.crawl_thread = 0,
                !.stop_pc = "idle",
                !.last_call = "stopped"]
       \/ /\ crawler.threads[crawler.crawl_thread] = "busy"
          /\ crawler' = [crawler EXCEPT
                !.running = FALSE,
                !.crawl_thread = 0,
                !.stop_pc = "idle",
                !.last_call = "did not finish within timeout"]
    /\ UNCHANGED nonControlVars

\* _crawl_loop of thread t from its start to the while loop
ThreadLoad(t) ==
    /\ pc = "control"
    /\ crawler.threads[t] = "load"
    /\ crawler' = [crawler EXCEPT !.threads[t] = "loop"]
    /\ UNCHANGED nonControlVars

\* `while not self._shutdown_requested`: the loop is left when the flag is
\* set or the frontier has stayed empty; otherwise a URL is processed or
\* the thread sleeps
ThreadIterate(t) ==
    /\ pc = "control"
    /\ crawler.threads[t] = "loop"
    /\ IF crawler.shutdown_requested
       THEN crawler' = [crawler EXCEPT !.threads[t] = "finally"]
       ELSE \E next \in {"busy", "sleep", "finally"} :
                crawler' = [crawler EXCEPT !.threads[t] = next]
    /\ UNCHANGED nonControlVars

\* _process_url or time.sleep(0.5) returns
ThreadResume(t) ==
    /\ pc = "control"
    /\ crawler.threads[t] \in {"busy", "sleep"}
    /\ crawler' = [crawler EXCEPT !.threads[t] = "loop"]
    /\ UNCHANGED nonControlVars

\* the finally block of _crawl_loop: _running = False, and the thread ends
ThreadFinally(t) ==
    /\ pc = "control"
    /\ crawler.threads[t] = "finally"
    /\ crawler' = [crawler EXCEPT !.threads[t] = "dead", !.running = FALSE]
    /\ UNCHANGED nonControlVars

InitControl ==
    /\ q = Queue_init
    /\ d = Dedup_init
    /\ e = Progress_init
    /\ disk = EmptyDisk
    /\ site = NoSite
    /\ max_depth = 0
    /\ pc = "control"
    /\ cur = NoItem
    /\ page_result = "none"
    /\ processed_any_url = FALSE
    /\ consecutive_empty_checks = 0
    /\ urls_processed_this_session = 0
    /\ shutdown_requested = FALSE
    /\ ret_pc = "none"
    /\ hist = NoHist
    /\ lastOp = NoLastOp
    /\ opCount = 0
    /\ fetch = NoFetch
    /\ store = NoStore
    /\ workers = NoWorkers
    /\ canon = NoCanon
    /\ crawler = NoCrawler

NextControl ==
    \/ StartCrawling
    \/ StopCrawlingRequest
    \/ StopCrawlingJoined
    \/ \E t \in 1..MaxThreads :
        \/ ThreadLoad(t)
        \/ ThreadIterate(t)
        \/ ThreadResume(t)
        \/ ThreadFinally(t)

SpecControl == InitControl /\ [][NextControl]_vars

(***************************************************************************)
(* Properties of sequences of component operations.                        *)
(***************************************************************************)
\* the step is the component operation op
OpStep(op) == lastOp'.op = op /\ opCount' = opCount + 1

HeapUrls(heap) == {en.url : en \in heap}

\* in the order get_next_url serves them, no ARTICLE precedes a CATEGORY
CategoriesFirst(items) ==
    \A i, j \in 1..Len(items) :
        i < j => ~(items[i].url_type = "ARTICLE" /\ items[j].url_type = "CATEGORY")

\* C2: whenever the frontier holds a CATEGORY entry, get_next_url returns a
\* CATEGORY entry, so that draining the frontier yields every CATEGORY
\* entry before any ARTICLE entry
C2_CategoryFirst ==
    /\ [](pc = "ops" => CategoriesFirst(DrainHeap(q.heap)))
    /\ [][(OpStep("next") /\ \E en \in q.heap : en.url_type = "CATEGORY")
            => lastOp'.item.url_type = "CATEGORY"]_vars

\* a CATEGORY entry was returned although an ARTICLE entry, whose URL sorts
\* first, is still pending
C2_Witness ==
    /\ lastOp.op = "next"
    /\ lastOp.item.url_type = "CATEGORY"
    /\ \E en \in q.heap : en.url_type = "ARTICLE"

Observable(qq, dd, ee) ==
    [next_results |-> DrainHeap(qq.heap),
     pending |-> qq.pending,
     completed |-> qq.completed,
     size |-> Queue_size(qq),
     is_processed |-> {u \in OpsUrls : Dedup_is_processed(dd, u)},
     status |-> Progress_get_status(ee)]

\* C10: saving the three components and loading the files into new
\* instances yields the same get_next_url results, pending and completed
\* sets, is_processed answers and get_status counters
C10_RoundTrip ==
    [][OpStep("save_load") => Observable(q', d', e') = Observable(q, d, e)]_vars

\* new instances were loaded from files that hold a pending entry, a
\* processed URL and a counted outcome
C10_Witness ==
    /\ lastOp.op = "save_load"
    /\ q.heap # {}
    /\ d.processed # {}
    /\ e.status.total_processed > 0

(***************************************************************************)
(* Properties of crawls.                                                   *)
(***************************************************************************)
\* C1: in a crawl, also one that is stopped, saved and loaded into new
\* components between two rounds of the loop, no canonical URL is passed to
\* the fetch-and-handle step more than once
C1_FetchedOnce ==
    pc # "ops" => hist.refetched = {} /\ hist.refinished = {}

\* in the second session, which follows a stop, the first URL dequeued is a
\* spelling of a page fetched in the first session: it was skipped
C1_Witness ==
    /\ pc = "loop"
    /\ hist.sessions = 2
    /\ hist.stops = 1
    /\ processed_any_url
    /\ e.status.total_processed = 0
    /\ hist.skipped # {}
    /\ hist.skipped \subseteq hist.fetched
    /\ q.heap # {}

\* the step is the second half of _process_url for a category page whose
\* handler succeeded
CategoryHandled ==
    /\ pc = "handle"
    /\ pc' = "after"
    /\ page_result = "category"
    /\ terminal_status(site, cur.url, page_result) = "COMPLETED"

\* C3: no CATEGORY entry of a depth above max_depth is queued or dequeued; a
\* category page handled at a depth of max_depth or more adds no CATEGORY
\* entry, and each article it lists that is neither in the registry nor
\* known to the queue is queued
C3_DepthGate ==
    /\ [](pc # "ops" =>
            /\ \A en \in q.heap : en.url_type = "CATEGORY" => en.depth <= max_depth
            /\ cur.url_type = "CATEGORY" => cur.depth <= max_depth)
    /\ [][(CategoryHandled /\ cur.depth >= max_depth) =>
            /\ \A en \in q'.heap \ q.heap : en.url_type = "ARTICLE"
            /\ \A u \in site.links[cur.url.id] :
                  (~u.cat /\ ~Dedup_is_processed(d, u) /\ ~add_url_is_dup(q, u))
                      => \E en \in q'.heap \ q.heap :
                            en.url = u /\ en.url_type = "ARTICLE"]_vars

\* a category page at depth max_depth >= 1 that lists a category and an
\* article was handled: the article is queued, the category is not
C3_Witness ==
    /\ pc = "after"
    /\ page_result = "category"
    /\ max_depth >= 1
    /\ cur.depth = max_depth
    /\ \E u, v \in site.links[cur.url.id] :
            /\ u.cat /\ u \notin HeapUrls(q.heap)
            /\ ~v.cat /\ v \in HeapUrls(q.heap)

\* the site is a tree below the seed, given by plain URLs, whose fetches
\* succeed, whose pages look like what their URLs say and whose category
\* handlers succeed
CleanTree(s) ==
    /\ \A i \in s.pages :
            /\ s.fetch_ok[i]
            /\ s.html[i] = IF s.cat[i] THEN "category" ELSE "article"
            /\ s.cat[i] => s.outcome[i] = "completed"
            /\ s.links[i] # {} => s.cat[i]
            /\ s.links[i] \subseteq {PlainUrl(s.cat[j], j) : j \in {k \in s.pages : k > i}}
    /\ \A j \in s.pages \ {0} :
            Cardinality({i \in s.pages : PlainUrl(s.cat[j], j) \in s.links[i]}) = 1

ParentOf(s, j) == CHOOSE i \in s.pages : PlainUrl(s.cat[j], j) \in s.links[i]

\* the number of category pages below the seed on the path to page j,
\* page j included
RECURSIVE CatDepth(_, _)
CatDepth(s, j) ==
    IF j = 0 THEN 0
    ELSE CatDepth(s, ParentOf(s, j)) + (IF s.cat[j] THEN 1 ELSE 0)

\* the categories at a depth of at most k and the articles they list
WithinDepth(s, k) == {j \in s.pages : CatDepth(s, j) <= k}

UrlsOf(s, ids) == {PlainUrl(s.cat[j], j) : j \in ids}

\* the loop of _crawl_loop has ended
LoopEnded ==
    \/ pc = "final"
    \/ pc \in {"save_q", "save_d", "save_p", "done"} /\ ret_pc = "done"

C9_ResumedCounts ==
    (LoopEnded /\ hist.kills > 0 /\ hist.stops = 0 /\ CleanTree(site)) =>
        /\ e.status.total_processed = Cardinality(WithinDepth(site, max_depth))
        /\ e.status.categories_processed =
                Cardinality({j \in WithinDepth(site, max_depth) : site.cat[j]})
        /\ e.status.articles_processed =
                Cardinality({j \in WithinDepth(site, max_depth) :
                                ~site.cat[j] /\ site.outcome[j] = "completed"})

\* C11: a crash while a checkpoint is written leaves each of the three
\* state files complete, with its previous or its new content, never
\* truncated
C11_FilesComplete ==
    pc # "ops" =>
        /\ disk.queue.kind # "corrupt"
        /\ disk.dedup.kind # "corrupt"
        /\ disk.progress.kind # "corrupt"

\* the step starts a process: the three state files are loaded
LoadStep == pc \in {"dead", "done"} /\ pc' = "loop"

\* C12: when the load of one state file fails, that component starts in
\* its empty initial state, nothing of the file restored, and the
\* components whose load succeeds hold what their files hold
C12_LoadFailure ==
    [][LoadStep =>
        /\ ~Queue_load_state_result(disk.queue) =>
              q' \in {Queue_init, Queue_add_url(Queue_init, start_url, "CATEGORY", 0)}
        /\ ~Dedup_load_state_result(disk.dedup) => d'.processed = {}
        /\ ~Progress_load_state_result(disk.progress) =>
              e' = Progress_start_crawling(Progress_init)
        /\ Queue_load_state_result(disk.queue) =>
              /\ q'.completed = disk.queue.doc.completed_urls
              /\ disk.queue.doc.pending_urls \subseteq q'.pending
        /\ Dedup_load_state_result(disk.dedup) =>
              d'.processed = disk.dedup.doc.processed_urls
        /\ Progress_load_state_result(disk.progress) =>
              DOMAIN e'.url_status = DOMAIN disk.progress.doc.url_status]_vars

\* C13: of every 10 consecutive rounds of the loop that dequeue a URL, one
\* at least writes a checkpoint, whatever the outcomes of the URLs
C13_CheckpointEveryTen ==
    pc = "loop" => hist.since_save < save_every

\* C14: after a shutdown request the loop dequeues no further URL, the URL
\* being processed gets its terminal status, and the thread ends, having
\* written the frontier, the registry and the tracker as they are at the end
C14_Shutdown ==
    /\ [][shutdown_requested => ~(pc = "loop" /\ q'.heap # q.heap)]_vars
    /\ [](pc = "done" =>
            /\ hist.finished = hist.fetched
            /\ disk.queue = OkFile(Queue_save_state(q))
            /\ disk.dedup = OkFile(Dedup_save_state(d))
            /\ disk.progress.kind = "ok"
            /\ disk.progress.doc.status = e.status
            /\ ~e.status.is_running
            /\ DOMAIN disk.progress.doc.url_status = DOMAIN e.url_status)
    /\ (shutdown_requested ~> pc = "done")

\* the thread has ended after a shutdown request that came while a URL was
\* being processed; URLs are left pending in the written frontier
C14_Witness ==
    /\ pc = "done"
    /\ shutdown_requested
    /\ hist.sessions = 1
    /\ hist.fetched # {}
    /\ cur.url \in hist.fetched
    /\ disk.queue.kind = "ok"
    /\ Len(disk.queue.doc.queue_items) >= 2

(***************************************************************************)
(* Properties of one call of the fetcher (SpecFetch).                      *)
(***************************************************************************)
\* every GET so far failed with a connection error, every connectivity test
\* failed and every reply of the operator was "continue"
AllDown ==
    /\ fetch.only_conn
    /\ ~fetch.probe_ok_seen
    /\ ~fetch.other_reply_seen

\* C15: when every GET fails with a connection error, every connectivity
\* test fails and the operator always answers continue, the call asks the
\* operator at most three times and returns None after exactly three
\* operator-approved retry cycles (four schedules of max_retries + 1 GETs),
\* with user_retries = 3, circuit_breaker_activations = 1 and the URL
\* counted as skipped once; before that nothing is skipped and the circuit
\* breaker has not acted
C15_CircuitBreaker ==
    AllDown =>
        /\ fetch.stats.user_retries <= 3
        /\ fetch.prompts <= 3
        /\ fetch.pc = "returned" =>
                /\ fetch.result = "none"
                /\ fetch.user_retry_cycle = 3
                /\ fetch.stats.user_retries = 3
                /\ fetch.stats.circuit_breaker_activations = 1
                /\ fetch.stats.skipped_urls = 1
                /\ fetch.gets = 4 * (fetch.max_retries + 1)
        /\ fetch.pc # "returned" =>
                /\ fetch.stats.circuit_breaker_activations = 0
                /\ fetch.stats.skipped_urls = 0

\* the call has returned after the third retry cycle of a fetcher with two
\* retries per schedule, the network being down throughout
C15_Witness ==
    /\ AllDown
    /\ fetch.pc = "returned"
    /\ fetch.max_retries = 2
    /\ fetch.gets = 12
    /\ fetch.stats.connection_errors = 12
    /\ fetch.stats.connectivity_failures = 4
    /\ fetch.stats.circuit_breaker_activations = 1

\* a call that has returned takes no further step
ReturnedIsFinal == [][fetch.pc # "returned"]_vars

\* C16: when the first GET of a call is answered with 404, 403, 410 or 451
\* the call returns None at once: one request, no backoff wait and no
\* retry, no connectivity test, no prompt
C16_PermanentFailure ==
    /\ [][(/\ fetch.pc = "get"
           /\ fetch.gets = 0
           /\ fetch'.last_get.exc = "none"
           /\ fetch'.last_get.code \in {404, 403, 410, 451})
            => /\ fetch'.pc = "returned"
               /\ fetch'.result = "none"
               /\ fetch'.gets = 1
               /\ fetch'.stats.requests_made = 1
               /\ fetch'.stats.retries_attempted = 0
               /\ fetch'.waits = 0
               /\ fetch'.stats.connectivity_tests = 0
               /\ fetch'.prompts = 0]_vars
    /\ ReturnedIsFinal

\* a fetcher with two retries has returned None on a first answer of 451
C16_Witness ==
    /\ fetch.pc = "returned"
    /\ fetch.result = "none"
    /\ fetch.max_retries = 2
    /\ fetch.gets = 1
    /\ fetch.last_get = [exc |-> "none", code |-> 451]
    /\ fetch.stats.permanent_failures = 1

\* C17: as long as every GET of the call failed with 408, 429, a 5xx code,
\* a connection error or a timeout, each schedule of attempts issues
\* max_retries + 1 GETs, a backoff wait precedes every GET but the first of
\* the schedule, and the connectivity test comes only after the last GET
C17_AttemptSchedule ==
    fetch.only_transient =>
        LET k == fetch.user_retry_cycle
            R == fetch.max_retries
        IN  /\ fetch.pc = "probe" =>
                    /\ fetch.gets = (k + 1) * (R + 1)
                    /\ fetch.waits = (k + 1) * R
                    /\ fetch.stats.retries_attempted = (k + 1) * R
                    /\ fetch.stats.connectivity_tests = k
            /\ fetch.pc = "get" =>
                    /\ fetch.attempt <= R
                    /\ fetch.gets = k * (R + 1) + fetch.attempt
                    /\ fetch.waits = k * R + fetch.attempt
                    /\ fetch.stats.connectivity_tests = k
            /\ fetch.pc = "wait" =>
                    /\ fetch.attempt < R
                    /\ fetch.gets = k * (R + 1) + fetch.attempt + 1
                    /\ fetch.waits = k * R + fetch.attempt
                    /\ fetch.stats.connectivity_tests = k

\* the first schedule of a fetcher with two retries is over after a
\* timeout, an answer with a transient status code and a connection error
C17_Witness ==
    /\ fetch.only_transient
    /\ fetch.pc = "probe"
    /\ fetch.phase = "initial"
    /\ fetch.max_retries = 2
    /\ fetch.gets = 3
    /\ fetch.waits = 2
    /\ fetch.stats.timeout_errors = 1
    /\ fetch.stats.failed_requests = 1
    /\ fetch.stats.connection_errors = 1

\* C18: _prompt_user_for_action is only called right after a connectivity
\* test that failed; a connectivity test that succeeds, after the first
\* schedule or after a retry cycle, makes the call return None with no
\* prompt after it and no activation of the circuit breaker
C18_PromptAfterFailedProbe ==
    /\ [][(fetch'.prompts # fetch.prompts
            \/ (fetch'.pc = "prompt" /\ fetch.pc # "prompt"))
            => /\ fetch.pc = "probe"
               /\ fetch'.last_step = "probe"
               /\ fetch'.stats.connectivity_failures =
                        fetch.stats.connectivity_failures + 1]_vars
    /\ [][(/\ fetch.pc = "probe"
           /\ fetch'.stats.connectivity_successes #
                    fetch.stats.connectivity_successes)
            => /\ fetch'.pc = "returned"
               /\ fetch'.result = "none"
               /\ fetch'.prompts = fetch.prompts
               /\ fetch'.stats.circuit_breaker_activations = 0
               /\ fetch'.stats.skipped_urls = 0]_vars
    /\ ReturnedIsFinal

\* the call has returned on a connectivity test that succeeded after the
\* second retry cycle the operator approved
C18_Witness ==
    /\ fetch.pc = "returned"
    /\ fetch.last_step = "probe"
    /\ fetch.probe_ok_seen
    /\ fetch.user_retry_cycle = 2
    /\ fetch.prompts = 2
    /\ fetch.stats.connectivity_failures = 2
    /\ fetch.stats.connectivity_successes = 1

\* C19: when the operator's line is skip (in any case, with or without
\* blanks), or the prompt ends with end-of-file or an interrupt, the call
\* returns None, skipped_urls becomes 1 and no GET follows
C19_Skip ==
    /\ [][(/\ fetch.pc = "prompt"
           /\ fetch'.last_step = "reply"
           /\ fetch'.last_reply \in {"skip", "eof", "interrupt"})
            => /\ fetch'.pc = "returned"
               /\ fetch'.result = "none"
               /\ fetch.stats.skipped_urls = 0
               /\ fetch'.stats.skipped_urls = 1
               /\ fetch'.gets = fetch.gets]_vars
    /\ ReturnedIsFinal

\* the call has returned on an end-of-file at the second prompt
C19_Witness ==
    /\ fetch.pc = "returned"
    /\ fetch.last_step = "reply"
    /\ fetch.last_reply = "eof"
    /\ fetch.prompts = 2
    /\ fetch.stats.user_retries = 1
    /\ fetch.stats.skipped_urls = 1

\* C20: after a GET of the call has failed with too-many-redirects the
\* call issues no further GET, in whichever schedule the failure occurred
C20_NoGetAfterRedirects ==
    [][fetch.redirected => fetch'.gets = fetch.gets]_vars

(***************************************************************************)
(* Properties of the outcomes a crawl records.                             *)
(***************************************************************************)
\* C21: every URL passed to _process_url gets a status, COMPLETED, FILTERED
\* or ERROR, by one call of update_progress, and the status the tracker
\* holds for a URL stays what it is in every later step of the crawl, also
\* across a stop and a new start from the saved state
C21_OneTerminalStatus ==
    /\ [](pc \notin {"ops", "fetch"} =>
            /\ \A u \in DOMAIN e.url_status :
                    e.url_status[u] \in {"COMPLETED", "FILTERED", "ERROR"}
            /\ hist.refinished = {}
            /\ e.stats.total_updates = Cardinality(DOMAIN e.url_status)
            /\ pc # "handle" =>
                    {Canon(u) : u \in DOMAIN e.url_status} = hist.fetched)
    /\ [][\A u \in DOMAIN e.url_status :
            /\ u \in DOMAIN e'.url_status
            /\ e'.url_status[u] = e.url_status[u]]_vars

\* the second session of a crawl has ended; it recorded statuses of its own
\* next to the ones loaded, a FILTERED one among them
C21_Witness ==
    /\ pc = "done"
    /\ hist.sessions = 2
    /\ hist.stops = 1
    /\ e.status.total_processed >= 1
    /\ Cardinality(DOMAIN e.url_status) > e.status.total_processed
    /\ \E u \in DOMAIN e.url_status : e.url_status[u] = "FILTERED"
    /\ \E u \in DOMAIN e.url_status : e.url_status[u] = "COMPLETED"

\* the step ends an iteration whose fetching or handling fails:
\* process_page reports a failure, the page type is unknown, or the handler
\* fails, be it on an exception or because the file store raises
HandlingFails ==
    /\ pc = "handle"
    /\ pc' # "handle"
    /\ \/ page_result \in {"failed", "unknown"}
       \/ site.outcome[cur.url.id] \in {"error", "storage_error"}

\* C22: when fetching or handling a URL fails, ERROR is recorded for that
\* URL, the status of no other URL and no entry of the frontier or the
\* registry is touched, and the loop goes on: it does not end before a
\* shutdown is requested or the frontier is empty
C22_ErrorPerUrl ==
    /\ [][HandlingFails =>
            /\ pc' = "after"
            /\ e'.url_status = MapPut(e.url_status, cur.url, "ERROR")
            /\ e'.status.error_count = e.status.error_count + 1
            /\ q' = q /\ d' = d]_vars
    /\ [][(pc = "after" /\ ~shutdown_requested) =>
            pc' \in {"after", "loop", "save_q"} /\ ret_pc' # "done"]_vars
    /\ []((LoopEnded /\ ~shutdown_requested) => Queue_is_empty(q))

\* the crawl of the faulty site has ended by itself: five failures are
\* recorded and the pages behind them in the frontier were processed
C22_Witness ==
    /\ pc = "done"
    /\ site.name = "faulty"
    /\ hist.sessions = 1
    /\ ~shutdown_requested
    /\ e.status.error_count = 5
    /\ e.status.articles_processed >= 1
    /\ e.status.categories_processed >= 2

\* the step ends an iteration in which the file store fails to save the
\* record of the page
StoreFails ==
    /\ pc = "handle"
    /\ pc' # "handle"
    /\ page_result \in {"category", "article"}
    /\ site.outcome[cur.url.id] = "storage_error"

\* C23: when the file store fails to save a record the loop is left for
\* the final checkpoint and no status is recorded for the URL
C23_StorageErrorStops ==
    [][StoreFails => pc' = "final" /\ e'.url_status = e.url_status]_vars

\* C24: a call of _fetch_page that ends on a 404 is recorded as one ERROR
\* counted under page_not_found
C24_NotFoundCategory ==
    [][(/\ pc = "fetch"
        /\ pc' = "recorded"
        /\ fetch.result = "none"
        /\ fetch.last_get = [exc |-> "none", code |-> 404])
        => /\ e'.url_status[fetched_item.url] = "ERROR"
           /\ e'.status.error_count = e.status.error_count + 1
           /\ e'.error_summary =
                [e.error_summary EXCEPT !["page_not_found"] = @ + 1]]_vars

(***************************************************************************)
(* Properties of the file store (SpecStore).                               *)
(***************************************************************************)
\* C25: no save writes to a path that holds a stored record: a file of the
\* output directory keeps the record it holds, whether it was written in
\* this session or found when the store was constructed, in every layout
C25_WrittenOnce ==
    [][\A p \in DOMAIN store.files :
            p \in DOMAIN store'.files /\ store'.files[p] = store.files[p]]_vars

\* the saves of the session that are under way or have returned
SessionPaths ==
    [t \in {u \in 1..MaxSavers : InFlight(u)} |-> store.calls[t].path]

\* C26: the saves that threads run side by side through one store, with
\* the same title or not, get pairwise different paths, and the file at the
\* path a call returned holds the record of that call
C26_DistinctPaths ==
    pc = "store" =>
        /\ \A t1, t2 \in DOMAIN SessionPaths :
                t1 # t2 => SessionPaths[t1] # SessionPaths[t2]
        /\ \A r \in store.returned :
                /\ r.path \in DOMAIN store.files
                /\ store.files[r.path] = r.rec
                /\ \A t \in DOMAIN SessionPaths : SessionPaths[t] # r.path
                /\ \A r2 \in store.returned : r2.path = r.path => r2 = r

\* two threads saved records with the same title side by side: the one that
\* reserved its name second has returned, the first is about to rename its
\* temporary file
C26_Witness ==
    /\ pc = "store"
    /\ \E t \in 1..MaxSavers, r \in store.returned :
            /\ store.calls[t].pc = "replace"
            /\ store.calls[t].title = r.title
            /\ store.calls[t].page_type = r.page_type
            /\ store.calls[t].rec < r.rec
            /\ store.calls[t].path.dir = r.path.dir
            /\ r.path.name.sfx = Append(store.calls[t].path.name.sfx, 1)

\* C27: a save that fails leaves the files of the output directory as they
\* were and no temporary file of its own behind
C27_NoPartialFile ==
    [][(store'.last # store.last /\ store'.last.outcome = "failed") =>
            /\ store'.files = store.files
            /\ \A f \in store'.tmp : f.rec # store'.last.rec]_vars

(***************************************************************************)
(* Properties of workers that share the frontier and the registry          *)
(* (SpecWorkers).                                                          *)
(***************************************************************************)
\* C28: no canonical URL is fetched by more than one worker, and a worker
\* that has fetched a page is one whose mark_processed newly marked the URL
C28_OneWorkerPerUrl ==
    pc = "workers" =>
        /\ hist.refetched = {}
        /\ \A w \in 1..MaxWorkers :
                workers[w].pc = "handle" => workers[w].marked_new

(***************************************************************************)
(* Properties of the frontier's order and of its completed set (SpecOps).  *)
(***************************************************************************)
\* the entries of the frontier that were pending before `url` was added
\* and are of the priority class of its entry
OlderOfSameClass(url) ==
    {en \in q.heap : /\ en.url # url
                     /\ \E added \in q.heap : /\ added.url = url
                                              /\ added.priority = en.priority}

\* C29: entries of one priority class are returned first added, first
\* returned: get_next_url called right after an add_url that added an entry
\* behind older entries of its class does not return the entry just added
C29_FifoWithinClass ==
    [][(/\ OpStep("next")
        /\ lastOp.op = "add"
        /\ lastOp.res
        /\ OlderOfSameClass(lastOp.url) # {})
            => lastOp'.item.url # lastOp.url]_vars

\* C30: no entry that get_next_url can still return has its URL in the
\* completed set of the frontier
C30_PendingNotCompleted ==
    pc = "ops" => \A en \in q.heap : en.url \notin q.completed

(***************************************************************************)
(* Properties of URL canonicalization (SpecCanon).                         *)
(***************************************************************************)
\* C31 as stated: canon(canon(u)) = canon(u), and under the default
\* settings two URLs that differ only in fragment, case of host, trailing
\* slash or order of the query parameters have the same canonical URL
C31_CanonAsStated ==
    (pc = "canon" /\ canon.done) =>
        /\ canon.ccu = canon.cu
        /\ d.settings = DefaultSettings => canon.cu = canon.cv

\* C31 as amended: canon(canon(u)) = canon(u) under every setting, and
\* under the default settings two URLs that differ only in fragment, case of
\* host, trailing slash or the order of query parameters of different names
\* have the same canonical URL
C31_Canon ==
    (pc = "canon" /\ canon.done) =>
        /\ canon.ccu = canon.cu
        /\ (d.settings = DefaultSettings /\ DistinctNames(canon.u.query))
                => canon.cu = canon.cv

\* two spellings that differ in all four respects were normalized to one
\* URL, which differs from both
C31_Witness ==
    /\ pc = "canon"
    /\ canon.done
    /\ d.settings = DefaultSettings
    /\ canon.u.host_upper /\ ~canon.v.host_upper
    /\ canon.u.slash /\ ~canon.v.slash
    /\ canon.u.frag /\ ~canon.v.frag
    /\ canon.u.query = "ba" /\ canon.v.query = "ab"
    /\ canon.cu = canon.cv
    /\ canon.cu # canon.u

(***************************************************************************)
(* Properties of the crawl of a site that is no tree (SpecDag).            *)
(***************************************************************************)
\* the category pages at most k category links away from the seed
RECURSIVE CategoriesWithin(_, _)
CategoriesWithin(s, k) ==
    IF k = 0 THEN {0}
    ELSE LET near == CategoriesWithin(s, k - 1)
         IN  near \cup {j \in s.pages :
                          /\ s.cat[j]
                          /\ \E i \in near : PlainUrl(TRUE, j) \in s.links[i]}

\* the articles the given category pages list
ArticlesListed(s, cats) ==
    {j \in s.pages : /\ ~s.cat[j]
                     /\ \E i \in cats : \E u \in s.links[i] :
                            Canon(u) = PlainUrl(FALSE, j)}

\* C32: when the loop of an uninterrupted crawl ends, every category whose
\* shortest distance from the seed is at most max_depth has been processed,
\* and so has every article such a category lists
C32_ShortestPathComplete ==
    (LoopEnded /\ hist.sessions = 1 /\ hist.stops = 0) =>
        LET cats == CategoriesWithin(site, max_depth)
        IN  UrlsOf(site, cats \cup ArticlesListed(site, cats)) \subseteq hist.finished

(***************************************************************************)
(* Properties of the crawl: what an article entry adds, how a session      *)
(* ends (SpecCrawl, SpecStop).                                             *)
(***************************************************************************)
\* C33: the processing of a frontier entry of kind ARTICLE leaves the
\* entries of the frontier as they are, whatever the page is classified as
C33_ArticleAddsNothing ==
    [][(pc = "handle" /\ pc' = "after" /\ cur.url_type = "ARTICLE")
            => q'.heap = q.heap]_vars

\* C34: a session whose thread keeps running ends on its own once the
\* frontier is exhausted, unless a shutdown is requested first; so does a
\* session that resumes from saved state with an empty frontier and the seed
\* in the registry
C34_SessionTerminates ==
    (pc = "loop" /\ ~shutdown_requested) ~> (pc = "done" \/ shutdown_requested)

(***************************************************************************)
(* Properties of one call of the fetcher: its bounds, its retry cycles,    *)
(* the shutdown flag, its pacing (SpecFetch, SpecFetchStop).               *)
(***************************************************************************)
\* C35: whatever the network and the operator do, a call of the fetcher
\* runs at most 3 operator-approved retry cycles, sends at most 4 * (R + 1)
\* GETs to the URL and takes at most 3 replies of the operator
C35_FetchBounded ==
    pc = "fetch" =>
        /\ fetch.user_retry_cycle <= max_user_retry_cycles
        /\ fetch.stats.user_retries <= max_user_retry_cycles
        /\ fetch.prompts <= max_user_retry_cycles
        /\ fetch.gets <= (max_user_retry_cycles + 1) * (fetch.max_retries + 1)
        /\ fetch.stats.requests_made <= fetch.gets

\* a call has returned after 4 * (R + 1) GETs and three replies, R >= 1,
\* the last GET answered with 503 and one at least with a timeout
C35_Witness ==
    /\ pc = "fetch"
    /\ fetch.pc = "returned"
    /\ fetch.max_retries >= 1
    /\ fetch.gets = (max_user_retry_cycles + 1) * (fetch.max_retries + 1)
    /\ fetch.prompts = max_user_retry_cycles
    /\ fetch.last_get = [exc |-> "none", code |-> 503]
    /\ fetch.stats.timeout_errors >= 1

\* the last GET belongs to an operator-approved retry cycle and was
\* answered with 404, 403, 410 or 451
PermanentInRetry ==
    /\ fetch.phase = "retry"
    /\ fetch.last_get.exc = "none"
    /\ IsPermanentFailure(fetch.last_get.code)

\* C36: after a GET of an operator-approved retry cycle was answered with
\* 404, 403, 410 or 451 the call sends no further GET to the URL and does
\* not prompt the operator again
C36_PermanentEndsRetry ==
    [][PermanentInRetry =>
            fetch'.gets = fetch.gets /\ fetch'.prompts = fetch.prompts]_vars

\* C37: once the shutdown flag is set the fetcher starts no further attempt
\* for the URL in flight: no GET follows one it has already sent
C37_NoAttemptAfterShutdown ==
    [][(shutdown_requested /\ fetch.gets >= 1) => fetch'.gets = fetch.gets]_vars

\* C38: a GET that follows another GET to the site starts at least
\* delay_between_requests after it
C38_Paced ==
    [][(fetch.gets >= 1 /\ fetch'.gets = fetch.gets + 1)
            => fetch.since_get = "ge_D"]_vars

\* C39: at most one thread is inside _crawl_loop at any time: a
\* start_crawling call never starts a thread beside one that is alive,
\* also after a stop_crawling call has returned
C39_OneCrawlThread ==
    pc = "control" => Cardinality(AliveThreads) <= 1

\* C40: after a kill and a restart on the same output directory, when the
\* frontier of the new process is empty and no URL is being worked on,
\* every URL that was discovered and not finished at the kill has been
\* processed
C40_NothingLost ==
    (pc = "loop" /\ hist.kills > 0 /\ Queue_is_empty(q)) =>
        hist.pending_at_kill \subseteq hist.finished

====
